---- MODULE Spec2Model ----
(***************************************************************************)
(* Verification model of the financial-analysis web client:                *)
(*   - the chat interface's report job handling (AdvancedChatInterface,    *)
(*     EnhancedChatInterface): handleSend, handleGenerateReport and its    *)
(*     checkStatus poll, handleFileSelection, autoSelectFiles;             *)
(*   - the response parser of analyzeFinancialData (app/lib/openai.ts);    *)
(*   - the upload route's table-start search (api/financial/upload);       *)
(*   - the report export routes (api/financial/export/[reportId]);         *)
(*   - the Knowledge Base manager's list loads and deleteFile.             *)
(* Text is modelled as sequences of one-character strings so that split,   *)
(* trim, includes and toLowerCase are computed, not assumed.               *)
(***************************************************************************)
EXTENDS Integers, Sequences, FiniteSets, TLC

(***************************************************************************)
(* Bounds of the model.                                                    *)
(***************************************************************************)
MaxReports == 1

MaxSends == 1

MaxLines == 3

MaxRows == 7

MaxLoads == 3

MaxExports == 3

MaxUploads == 1

MaxPolls == 2

MaxSearches == 2

MaxListed == 2

MaxKeys == 3

MaxRouteCalls == 2

MaxMounts == 2

MaxFiles == 2

MaxDropped == 11

MaxPicked == 2

MaxBatches == 1

MaxFailures == 1

MaxBasicSends == 2

\* 300 ms interval ticks that fit before the 1500 ms timeout
TicksBeforeTimeout == 5

(***************************************************************************)
(* JavaScript string primitives over sequences of characters.              *)
(***************************************************************************)
None == "undefined"

IsSpace(c) == c \in {" ", "\n", "\t", "\r"}

\* s.trim(): from the first to the last character that is not a space
Trim(s) ==
  LET keep == {i \in 1..Len(s) : ~IsSpace(s[i])}
  IN  IF keep = {} THEN <<>>
      ELSE SubSeq(s, CHOOSE i \in keep : \A j \in keep : i <= j,
                     CHOOSE i \in keep : \A j \in keep : j <= i)

Includes(s, sub) ==
  \E i \in 1..(Len(s) - Len(sub) + 1) : SubSeq(s, i, i + Len(sub) - 1) = sub

\* s.split(sep) for a one-character separator: the pieces between
\* consecutive separators, always at least one piece
Split(s, sep) ==
  LET at == {i \in 1..Len(s) : s[i] = sep}
      n == Cardinality(at)
      cut(k) == IF k = 0 THEN 0
                ELSE IF k = n + 1 THEN Len(s) + 1
                ELSE CHOOSE i \in at : Cardinality({j \in at : j < i}) = k - 1
  IN  [k \in 1..(n + 1) |-> SubSeq(s, cut(k - 1) + 1, cut(k) - 1)]

RECURSIVE Join(_, _)
Join(parts, sep) ==
  IF parts = <<>> THEN <<>>
  ELSE IF Len(parts) = 1 THEN parts[1]
  ELSE parts[1] \o sep \o Join(Tail(parts), sep)

Range(s) == {s[i] : i \in 1..Len(s)}

(***************************************************************************)
(* State.                                                                  *)
(***************************************************************************)
VARIABLES
  \* chat interface (AdvancedChatInterface / EnhancedChatInterface)
  message,        \* the input box
  messages,       \* the chat transcript
  isLoading,
  selectedFiles,
  availableFiles, \* the ids of the files the backend listed
  reportStatus,
  now,            \* Date.now() as seen by handleGenerateReport
  chatReqs,       \* in-flight POST /api/enhanced/chat
  genReqs,        \* in-flight POST /api/enhanced/reports/generate
  genIssued,      \* number of generate requests issued so far
  timers,         \* pending setTimeout(checkStatus, 5000)
  polls,          \* in-flight GET /api/financial/report/<id>
  toast,          \* the last toast shown
  \* analyzeFinancialData (app/lib/openai.ts)
  content,        \* response.choices[0].message.content || ''
  analysis,       \* the value analyzeFinancialData returns
  \* upload route (app/api/financial/upload/route.ts)
  data,           \* sheet_to_json(worksheet, {header: 1}) of the first sheet
  upload,         \* progress and response of the POST handler
  \* export routes (app/api/financial/export/[reportId])
  reports,        \* the backend's report jobs, by report id
  exportLog,      \* the export requests answered so far
  \* Knowledge Base manager (KnowledgeBaseManager)
  kbFiles,        \* files: the list on display
  kbIsLoading,    \* isLoading
  processingFiles,
  registry,       \* the ids the backend lists as available
  nextFile,       \* the id the backend gives the next upload
  kbUploads,      \* in-flight POST /api/financial/upload
  kbProcess,      \* in-flight POST /api/vector/process
  kbTimers,       \* pending setTimeout(checkStatus, ...)
  kbPolls,        \* in-flight GET /api/vector/status/<id>
  pollsIssued,
  kbLoads,        \* in-flight GET /api/enhanced/files/available
  loadsIssued,
  loadFailed,     \* some list load was rejected
  kbDeletes,      \* in-flight DELETE /api/financial/file/<id>
  deleted,        \* ids for which deleteFile got an ok response
  kbToast,        \* the last toast shown
  \* file search (api/enhanced/files/search, searchFiles, searchKnowledgeBase)
  searchResults,
  isSearching,
  kbSearchResults,
  searchReqs,
  searchResps,
  searchLog,
  searchesIssued,
  searchToast,
  searchTrack,
  \* keyword file filter (filteredFiles)
  listed,
  searchTerm,
  filtered,
  \* transformTableData of the backend-proxy upload route
  backendData,
  transformed,
  chosenKeys,
  \* Next.js API routes proxying the backend
  routeLog,
  \* mounting of the chat interface and its stored session id
  mounted,
  sessionId,
  storedSessionId,
  sessionClock,
  atUnmount,
  mounts,
  autoProcessFiles,
  maxContextFiles,
  showSourceExcerpts,
  storedPreferences,
  \* knowledge-base file list (processFiles, removeFile)
  page,
  files,
  nextId,
  tickers,
  timeouts,
  fileUploads,
  removed,
  lateFired,
  \* file intake of the chat interface (dropzone, file input, uploadFile)
  uploadProgress,
  intakePosts,
  progressTimers,
  vectorPolling,
  intakeLog,
  nextUpload,
  intakeBatches,
  intakeToast,
  \* the chat box with a file attachment (ChatInterface of AdvancedChatInterface.tsx)
  activeChat,
  basicMessage,
  basicFile,
  basicMessages,
  basicIsLoading,
  basicSends,
  basicIssued,
  basicToast

chatVars == <<message, messages, isLoading, selectedFiles, availableFiles,
              reportStatus, now, chatReqs, genReqs, genIssued, timers,
              polls, toast>>

parseVars == <<content, analysis>>

uploadVars == <<data, upload>>

exportVars == <<reports, exportLog>>

kbVars == <<kbFiles, kbIsLoading, processingFiles, registry, nextFile,
            kbUploads, kbProcess, kbTimers, kbPolls, pollsIssued, kbLoads,
            loadsIssued, loadFailed, kbDeletes, deleted, kbToast>>

searchVars ==
  <<searchResults, isSearching, kbSearchResults, searchReqs, searchResps,
    searchLog, searchesIssued, searchToast, searchTrack>>

filterVars == <<listed, searchTerm, filtered>>

transformVars == <<backendData, transformed, chosenKeys>>

routesVars == <<routeLog>>

sessionVars ==
  <<mounted, sessionId, storedSessionId, sessionClock, atUnmount, mounts,
    autoProcessFiles, maxContextFiles, showSourceExcerpts, storedPreferences>>

filesVars ==
  <<page, files, nextId, tickers, timeouts, fileUploads, removed, lateFired>>

intakeVars ==
  <<uploadProgress, intakePosts, progressTimers, vectorPolling, intakeLog,
    nextUpload, intakeBatches, intakeToast>>

basicVars ==
  <<activeChat, basicMessage, basicFile, basicMessages, basicIsLoading,
    basicSends, basicIssued, basicToast>>

vars ==
  <<chatVars, parseVars, uploadVars, exportVars, kbVars, searchVars,
    filterVars, transformVars, routesVars, sessionVars, filesVars,
    intakeVars, basicVars>>

notChat ==
  <<parseVars, uploadVars, exportVars, kbVars, searchVars, filterVars,
    transformVars, routesVars, sessionVars, filesVars, intakeVars, basicVars>>

notParse ==
  <<chatVars, uploadVars, exportVars, kbVars, searchVars, filterVars,
    transformVars, routesVars, sessionVars, filesVars, intakeVars, basicVars>>

notUpload ==
  <<chatVars, parseVars, exportVars, kbVars, searchVars, filterVars,
    transformVars, routesVars, sessionVars, filesVars, intakeVars, basicVars>>

notExport ==
  <<chatVars, parseVars, uploadVars, kbVars, searchVars, filterVars,
    transformVars, routesVars, sessionVars, filesVars, intakeVars, basicVars>>

notKb ==
  <<chatVars, parseVars, uploadVars, exportVars, searchVars, filterVars,
    transformVars, routesVars, sessionVars, filesVars, intakeVars, basicVars>>

notSearch ==
  <<chatVars, parseVars, uploadVars, exportVars, kbVars, filterVars,
    transformVars, routesVars, sessionVars, filesVars, intakeVars, basicVars>>

notFilter ==
  <<chatVars, parseVars, uploadVars, exportVars, kbVars, searchVars,
    transformVars, routesVars, sessionVars, filesVars, intakeVars, basicVars>>

notTransform ==
  <<chatVars, parseVars, uploadVars, exportVars, kbVars, searchVars,
    filterVars, routesVars, sessionVars, filesVars, intakeVars, basicVars>>

notRoutes ==
  <<chatVars, parseVars, uploadVars, exportVars, kbVars, searchVars,
    filterVars, transformVars, sessionVars, filesVars, intakeVars, basicVars>>

notSession ==
  <<chatVars, parseVars, uploadVars, exportVars, kbVars, searchVars,
    filterVars, transformVars, routesVars, filesVars, intakeVars, basicVars>>

notFiles ==
  <<chatVars, parseVars, uploadVars, exportVars, kbVars, searchVars,
    filterVars, transformVars, routesVars, sessionVars, intakeVars,
    basicVars>>

notIntake ==
  <<chatVars, parseVars, uploadVars, exportVars, kbVars, searchVars,
    filterVars, transformVars, routesVars, sessionVars, filesVars, basicVars>>

notBasic ==
  <<chatVars, parseVars, uploadVars, exportVars, kbVars, searchVars,
    filterVars, transformVars, routesVars, sessionVars, filesVars,
    intakeVars>>
(***************************************************************************)
(* analyzeFinancialData: parsing of the model's response.                  *)
(***************************************************************************)
BalanceSheetMarker ==
  <<"#", "#", "#", "#", " ", "B", "a", "l", "a", "n", "c", "e", " ", "S",
    "h", "e", "e", "t", " ", "T", "a", "b", "l", "e">>

IncomeStatementMarker ==
  <<"#", "#", "#", "#", " ", "I", "n", "c", "o", "m", "e", " ", "S", "t",
    "a", "t", "e", "m", "e", "n", "t", " ", "T", "a", "b", "l", "e">>

CashFlowMarker ==
  <<"#", "#", "#", "#", " ", "C", "a", "s", "h", " ", "F", "l", "o", "w",
    " ", "S", "t", "a", "t", "e", "m", "e", "n", "t", " ", "T", "a", "b",
    "l", "e">>

HashMarker == <<"#", "#", "#", "#">>

DashMarker == <<"-", "-", "-">>

NoAnalysis == [done |-> FALSE]

IdleParse ==
  /\ content = <<>>
  /\ analysis = NoAnalysis

EmptyTables ==
  [balanceSheet |-> <<>>, incomeStatement |-> <<>>, cashFlowStatement |-> <<>>]

\* line.split('|').map(cell => cell.trim()).filter(cell => cell)
RECURSIVE TrimmedNonEmpty(_)
TrimmedNonEmpty(parts) ==
  IF parts = <<>> THEN <<>>
  ELSE IF Trim(Head(parts)) = <<>> THEN TrimmedNonEmpty(Tail(parts))
  ELSE <<Trim(Head(parts))>> \o TrimmedNonEmpty(Tail(parts))

Cells(line) == TrimmedNonEmpty(Split(line, "|"))

\* the section a heading line switches to, or None
HeadingOf(line) ==
  IF Includes(line, BalanceSheetMarker) THEN "balanceSheet"
  ELSE IF Includes(line, IncomeStatementMarker) THEN "incomeStatement"
  ELSE IF Includes(line, CashFlowMarker) THEN "cashFlowStatement"
  ELSE None

\* the test that lets a line of a section be read as a table row
IsRowLine(line) == Includes(line, <<"|">>) /\ ~Includes(line, DashMarker)

\* the two year columns taken in the opposite order
RowOf_YearsSwapped(cells) ==
  [indicator |-> cells[1], currentYear |-> cells[3], previousYear |-> cells[2]]

RowOf(cells) ==
  [indicator |-> cells[1], currentYear |-> cells[2], previousYear |-> cells[3]]

\* narrative lines run together without their line break
SummaryPiece_NoLineBreak(line) == line

\* the text a narrative line adds to summary
SummaryPiece(line) == line \o <<"\n">>

\* the body of the for loop, for the lines that remain
RECURSIVE ParseLines(_, _, _, _)
ParseLines(lines, currentSection, summary, tables) ==
  IF lines = <<>> THEN [summary |-> summary, tables |-> tables]
  ELSE
    LET line == Head(lines)
        rest == Tail(lines)
    IN  IF HeadingOf(line) # None
        THEN ParseLines(rest, HeadingOf(line), summary, tables)
        ELSE IF currentSection = "summary" /\ ~Includes(line, HashMarker)
        THEN ParseLines(rest, currentSection, summary \o SummaryPiece(line),
                        tables)
        ELSE IF currentSection # "summary" /\ IsRowLine(line)
                /\ Len(Cells(line)) >= 3
        THEN ParseLines(rest, currentSection, summary,
               [tables EXCEPT
                  ![currentSection] = Append(@, RowOf(Cells(line)))])
        ELSE ParseLines(rest, currentSection, summary, tables)

\* analyzeFinancialData after the completion call
ParseResponse(text) ==
  LET r == ParseLines(Split(text, "\n"), "summary", <<>>, EmptyTables)
  IN  [done |-> TRUE, summary |-> Trim(r.summary), tables |-> r.tables]

\* lines a model response is made of in this model
TotalAssetsLine ==
  <<"T", "o", "t", "a", "l", " ", "A", "s", "s", "e", "t", "s", " ", "|",
    " ", "1", ",", "0", "0", "0", ",", "0", "0", "0", " ", "|", " ", "9",
    "0", "0", ",", "0", "0", "0">>

FramedLine ==
  <<"|", " ", "C", "a", "s", "h", " ", "|", " ", "5", " ", "|", " ", "4",
    " ", "|", " ", "1", " ", "|">>

SeparatorLine ==
  <<"|", "-", "-", "-", "|", "-", "-", "-", "|">>

TwoCellLine ==
  <<"D", "e", "b", "t", " ", "|", " ", "7">>

DashCellLine ==
  <<"N", "e", "t", " ", "-", "-", "-", " ", "a", "d", "j", " ", "|", " ",
    "1", " ", "|", " ", "2">>

OtherHeadingLine ==
  <<"#", "#", "#", "#", " ", "S", "u", "m", "m", "a", "r", "y">>

ProseLine ==
  <<" ", "G", "r", "o", "w", "t", "h", ".", " ">>

ModelLines ==
  {BalanceSheetMarker, IncomeStatementMarker, CashFlowMarker,
   TotalAssetsLine, FramedLine, SeparatorLine, TwoCellLine, DashCellLine,
   OtherHeadingLine, ProseLine, <<>>}

LineLists == UNION {[1..n -> ModelLines] : n \in 1..MaxLines}

StartParse ==
  /\ content \in {Join(ls, <<"\n">>) : ls \in LineLists}
  /\ analysis = NoAnalysis

analyzeFinancialData ==
  /\ ~analysis.done
  /\ analysis' = ParseResponse(content)
  /\ UNCHANGED <<content, notParse>>


(***************************************************************************)
(* Upload route: locating the table in the first sheet.                    *)
(***************************************************************************)
\* String.prototype.toLowerCase on the letters the model's cells use
LowerChar(c) ==
  CASE c = "A" -> "a" [] c = "B" -> "b" [] c = "C" -> "c" [] c = "D" -> "d"
    [] c = "E" -> "e" [] c = "F" -> "f" [] c = "G" -> "g" [] c = "H" -> "h"
    [] c = "I" -> "i" [] c = "J" -> "j" [] c = "K" -> "k" [] c = "L" -> "l"
    [] c = "M" -> "m" [] c = "N" -> "n" [] c = "O" -> "o" [] c = "P" -> "p"
    [] c = "Q" -> "q" [] c = "R" -> "r" [] c = "S" -> "s" [] c = "T" -> "t"
    [] c = "U" -> "u" [] c = "V" -> "v" [] c = "W" -> "w" [] c = "X" -> "x"
    [] c = "Y" -> "y" [] c = "Z" -> "z"
    [] OTHER -> c

ToLowerCase(s) == [i \in 1..Len(s) |-> LowerChar(s[i])]

CodeWord == <<"c", "o", "d", "e">>

\* row.some(cell => String(cell).toLowerCase().includes('code'))
HasCodeCell(row) ==
  \E i \in 1..Len(row) : Includes(ToLowerCase(row[i]), CodeWord)

\* the loop without its break: the last row with a 'code' cell wins
FindStartIndex_NoBreak(rows) ==
  LET hits == {i \in 1..Len(rows) : HasCodeCell(rows[i])}
  IN  IF hits = {} THEN -1
      ELSE (CHOOSE i \in hits : \A j \in hits : j <= i) - 1

\* the for loop with break: the JavaScript index of the first row with a
\* 'code' cell, or -1
FindStartIndex(rows) ==
  LET hits == {i \in 1..Len(rows) : HasCodeCell(rows[i])}
  IN  IF hits = {} THEN -1
      ELSE (CHOOSE i \in hits : \A j \in hits : i <= j) - 1

\* headers.join('\t') + '\n', then row.join('\t') + '\n' for each row
RECURSIVE TableLines(_)
TableLines(rows) ==
  IF rows = <<>> THEN <<>>
  ELSE Join(Head(rows), <<"\t">>) \o <<"\n">> \o TableLines(Tail(rows))

TableStr(headers, rows) ==
  Join(headers, <<"\t">>) \o <<"\n">> \o TableLines(rows)

NoUpload ==
  [phase |-> "idle", status |-> 0, error |-> None, startIndex |-> -1,
   headers |-> <<>>, rows |-> <<>>, tableStr |-> <<>>, modelCalls |-> 0]

IdleUpload ==
  /\ data = <<>>
  /\ upload = NoUpload

\* rows a sheet is made of in this model
TitleRow == <<<<"C", "o">>, <<"d", "e">>>>

CodeRow ==
  <<<<"C", "o", "d", "e">>, <<"2", "0", "2", "3">>, <<"2", "0", "2", "4">>>>

BarcodeRow ==
  <<<<"1">>,
    <<"I", "T", "E", "M", " ", "B", "A", "R", "C", "O", "D", "E">>>>

FigureRow == <<<<"1", "1", "1">>, <<"5">>, <<"4">>>>

SheetRows == {TitleRow, CodeRow, BarcodeRow, FigureRow}

Sheets == UNION {[1..n -> SheetRows] : n \in 0..MaxRows}

StartUpload ==
  /\ data \in Sheets
  /\ upload = NoUpload

\* POST up to the await of analyzeFinancialData
uploadPOST ==
  /\ upload.phase = "idle"
  /\ LET startIndex == FindStartIndex(data)
     IN  IF startIndex = -1
         THEN upload' =
                [upload EXCEPT
                   !.phase = "responded", !.status = 400,
                   !.error = "Could not find \"Code\" column in the Excel file"]
         ELSE LET headers == data[startIndex + 1]
                  rows == SubSeq(data, startIndex + 2, Len(data))
              IN  upload' =
                    [upload EXCEPT
                       !.phase = "analyzing", !.startIndex = startIndex,
                       !.headers = headers, !.rows = rows,
                       !.tableStr = TableStr(headers, rows),
                       !.modelCalls = @ + 1]
  /\ UNCHANGED <<data, notUpload>>

\* analyzeFinancialData settles: the report is returned, or the catch
\* answers 500 with the error's message
uploadAnalyzed(threw) ==
  /\ upload.phase = "analyzing"
  /\ upload' =
       [upload EXCEPT
          !.phase = "responded",
          !.status = IF threw THEN 500 ELSE 200,
          !.error = IF threw THEN "model error detail" ELSE None]
  /\ UNCHANGED <<data, notUpload>>

(***************************************************************************)
(* Export routes: POST /api/financial/export/[reportId].                   *)
(***************************************************************************)
ReportIds == {"r1", "r2"}

\* the backend's report jobs: none exists yet
IdleExport ==
  /\ reports = [id \in ReportIds |-> "absent"]
  /\ exportLog = <<>>

\* the backend creates a job for a report request
reportRequested(id) ==
  /\ reports[id] = "absent"
  /\ reports' = [reports EXCEPT ![id] = "generating"]
  /\ UNCHANGED <<exportLog, notExport>>

\* the backend finishes a job
reportFinished(id, ok) ==
  /\ reports[id] = "generating"
  /\ reports' = [reports EXCEPT ![id] = IF ok THEN "completed" ELSE "error"]
  /\ UNCHANGED <<exportLog, notExport>>

\* the backend's answer to an export request for a job in the given state
BackendExport(job) ==
  IF job = "completed" THEN [ok |-> TRUE, statusText |-> "OK"]
  ELSE IF job = "absent" THEN [ok |-> FALSE, statusText |-> "Not Found"]
  ELSE [ok |-> FALSE, statusText |-> "Conflict"]

XlsxFile(reportId) ==
  [status |-> 200, kind |-> "xlsx",
   body |-> "financial-report-" \o reportId \o ".xlsx"]

\* the proxy route's response for the backend's answer (or a rejected fetch)
ProxyExportResponse(reportId, reachable, answer) ==
  IF reachable /\ answer.ok THEN XlsxFile(reportId)
  ELSE [status |-> 500, kind |-> "json", body |-> "Failed to export Excel file"]

\* the proxy route
exportProxy(reportId, reachable) ==
  /\ Len(exportLog) < MaxExports
  /\ exportLog' =
       Append(exportLog,
              [route |-> "proxy", reportId |-> reportId,
               job |-> reports[reportId],
               response |->
                 ProxyExportResponse(reportId, reachable,
                                  BackendExport(reports[reportId]))])
  /\ UNCHANGED <<reports, notExport>>

\* the route that builds the workbook itself: it reads no report
LocalExportResponse(reportId) == XlsxFile(reportId)

exportLocal(reportId) ==
  /\ Len(exportLog) < MaxExports
  /\ exportLog' =
       Append(exportLog,
              [route |-> "local", reportId |-> reportId,
               job |-> reports[reportId],
               response |-> LocalExportResponse(reportId)])
  /\ UNCHANGED <<reports, notExport>>

(***************************************************************************)
(* Knowledge Base manager: list loads, uploads, vector processing, delete. *)
(* stats and uploadProgress are display-only and left out.                 *)
(***************************************************************************)
\* data.files of a list response: the registry in id order
RECURSIVE Listing(_)
Listing(ids) ==
  IF ids = {} THEN <<>>
  ELSE LET least == CHOOSE i \in ids : \A j \in ids : i <= j
       IN  <<least>> \o Listing(ids \ {least})

NewLoad(n) == [n |-> n, answered |-> FALSE, files |-> <<>>]

IdleKb ==
  /\ kbFiles = <<>>
  /\ kbIsLoading = FALSE
  /\ processingFiles = {}
  /\ registry = {}
  /\ nextFile = 1
  /\ kbUploads = {}
  /\ kbProcess = {}
  /\ kbTimers = {}
  /\ kbPolls = {}
  /\ pollsIssued = 0
  /\ kbLoads = {}
  /\ loadsIssued = 0
  /\ loadFailed = FALSE
  /\ kbDeletes = {}
  /\ deleted = {}
  /\ kbToast = None

\* the page after its mount effect: loadKnowledgeBase() is in flight
StartKb ==
  /\ kbFiles = <<>>
  /\ kbIsLoading = TRUE
  /\ processingFiles = {}
  /\ registry \in {{}, {0}}
  /\ nextFile = 1
  /\ kbUploads = {}
  /\ kbProcess = {}
  /\ kbTimers = {}
  /\ kbPolls = {}
  /\ pollsIssued = 0
  /\ kbLoads = {NewLoad(1)}
  /\ loadsIssued = 1
  /\ loadFailed = FALSE
  /\ kbDeletes = {}
  /\ deleted = {}
  /\ kbToast = None

\* loadKnowledgeBase up to its fetch
IssueLoad ==
  /\ loadsIssued < MaxLoads
  /\ loadsIssued' = loadsIssued + 1
  /\ kbLoads' = kbLoads \cup {NewLoad(loadsIssued')}
  /\ kbIsLoading' = TRUE

\* the Refresh button, disabled while isLoading
kbRefresh ==
  /\ ~kbIsLoading
  /\ IssueLoad
  /\ UNCHANGED <<kbFiles, processingFiles, registry, nextFile, kbUploads,
                 kbProcess, kbTimers, kbPolls, pollsIssued, loadFailed,
                 kbDeletes, deleted, kbToast, notKb>>

\* the backend reads its registry to answer a list request
kbListAnswered(l) ==
  /\ l \in kbLoads
  /\ ~l.answered
  /\ kbLoads' = (kbLoads \ {l}) \cup
                  {[l EXCEPT !.answered = TRUE, !.files = Listing(registry)]}
  /\ UNCHANGED <<kbFiles, kbIsLoading, processingFiles, registry, nextFile,
                 kbUploads, kbProcess, kbTimers, kbPolls, pollsIssued,
                 loadsIssued, loadFailed, kbDeletes, deleted, kbToast, notKb>>

\* the files a list response puts on display
LoadedFiles(l, cur) == l.files

\* loadKnowledgeBase after its response: setFiles(data.files || [])
kbListLoaded(l) ==
  /\ l \in kbLoads
  /\ l.answered
  /\ kbLoads' = kbLoads \ {l}
  /\ kbFiles' = LoadedFiles(l, kbFiles)
  /\ kbIsLoading' = FALSE
  /\ UNCHANGED <<processingFiles, registry, nextFile, kbUploads, kbProcess,
                 kbTimers, kbPolls, pollsIssued, loadsIssued, loadFailed,
                 kbDeletes, deleted, kbToast, notKb>>

\* loadKnowledgeBase's catch: the list stays as it was
kbListFailed(l) ==
  /\ l \in kbLoads
  /\ kbLoads' = kbLoads \ {l}
  /\ kbIsLoading' = FALSE
  /\ loadFailed' = TRUE
  /\ kbToast' = "Failed to load knowledge base"
  /\ UNCHANGED <<kbFiles, processingFiles, registry, nextFile, kbUploads,
                 kbProcess, kbTimers, kbPolls, pollsIssued, loadsIssued,
                 kbDeletes, deleted, notKb>>

\* uploadFile up to its fetch
uploadFile ==
  /\ nextFile + Cardinality(kbUploads) <= MaxUploads
  /\ kbUploads' = kbUploads \cup {Cardinality(kbUploads) + 1}
  /\ UNCHANGED <<kbFiles, kbIsLoading, processingFiles, registry, nextFile,
                 kbProcess, kbTimers, kbPolls, pollsIssued, kbLoads,
                 loadsIssued, loadFailed, kbDeletes, deleted, kbToast, notKb>>

\* the upload is answered ok with data.file_id: processFileForVectors
\* starts and issues its fetch
kbUploadOk(u) ==
  /\ u \in kbUploads
  /\ kbUploads' = kbUploads \ {u}
  /\ registry' = registry \cup {nextFile}
  /\ nextFile' = nextFile + 1
  /\ processingFiles' = processingFiles \cup {nextFile}
  /\ kbProcess' = kbProcess \cup {nextFile}
  /\ kbToast' = "File uploaded successfully"
  /\ UNCHANGED <<kbFiles, kbIsLoading, kbTimers, kbPolls, pollsIssued, kbLoads,
                 loadsIssued, loadFailed, kbDeletes, deleted, notKb>>

\* uploadFile's catch
kbUploadFailed(u) ==
  /\ u \in kbUploads
  /\ kbUploads' = kbUploads \ {u}
  /\ kbToast' = "Failed to upload"
  /\ UNCHANGED <<kbFiles, kbIsLoading, processingFiles, registry, nextFile,
                 kbProcess, kbTimers, kbPolls, pollsIssued, kbLoads,
                 loadsIssued, loadFailed, kbDeletes, deleted, notKb>>

\* the process request settles; processFileForVectors returns and
\* uploadFile goes on to loadKnowledgeBase()
kbProcessSettled(fileId, outcome) ==
  /\ fileId \in kbProcess
  /\ kbProcess' = kbProcess \ {fileId}
  /\ kbTimers' = IF outcome = "ok" THEN kbTimers \cup {fileId} ELSE kbTimers
  /\ processingFiles' = IF outcome = "threw" THEN processingFiles \ {fileId}
                        ELSE processingFiles
  /\ IssueLoad
  /\ kbToast' = IF outcome = "ok" THEN "Vector processing started"
                ELSE IF outcome = "threw"
                THEN "Failed to start vector processing"
                ELSE kbToast
  /\ UNCHANGED <<kbFiles, registry, nextFile, kbUploads, kbPolls, pollsIssued,
                 loadFailed, kbDeletes, deleted, notKb>>

\* a checkStatus timer fires and issues its fetch
kbCheckStatus(fileId) ==
  /\ fileId \in kbTimers
  /\ pollsIssued < MaxPolls
  /\ pollsIssued' = pollsIssued + 1
  /\ kbTimers' = kbTimers \ {fileId}
  /\ kbPolls' = kbPolls \cup {fileId}
  /\ UNCHANGED <<kbFiles, kbIsLoading, processingFiles, registry, nextFile,
                 kbUploads, kbProcess, kbLoads, loadsIssued, loadFailed,
                 kbDeletes, deleted, kbToast, notKb>>

\* checkStatus reads 'completed': the list is reloaded
kbStatusCompleted(fileId) ==
  /\ fileId \in kbPolls
  /\ kbPolls' = kbPolls \ {fileId}
  /\ IssueLoad
  /\ processingFiles' = processingFiles \ {fileId}
  /\ kbToast' = "File processed and ready for search"
  /\ UNCHANGED <<kbFiles, registry, nextFile, kbUploads, kbProcess, kbTimers,
                 pollsIssued, loadFailed, kbDeletes, deleted, notKb>>

\* checkStatus reads 'processing' (polls again), another status such as
\* 'pending' or 'error' (the else branch: gives up with the failure toast),
\* or its fetch is rejected (caught and logged)
kbStatusOther(fileId, outcome) ==
  /\ fileId \in kbPolls
  /\ kbPolls' = kbPolls \ {fileId}
  /\ kbTimers' = IF outcome = "processing" THEN kbTimers \cup {fileId}
                 ELSE kbTimers
  /\ processingFiles' = IF outcome \in {"pending", "error"}
                        THEN processingFiles \ {fileId}
                        ELSE processingFiles
  /\ kbToast' = IF outcome \in {"pending", "error"}
                THEN "Vector processing failed"
                ELSE kbToast
  /\ UNCHANGED <<kbFiles, kbIsLoading, registry, nextFile, kbUploads,
                 kbProcess, pollsIssued, kbLoads, loadsIssued, loadFailed,
                 kbDeletes, deleted, notKb>>

\* deleteFile up to its fetch: the trash button of a file card
deleteFile(fileId) ==
  /\ fileId \in Range(kbFiles)
  /\ fileId \notin kbDeletes
  /\ kbDeletes' = kbDeletes \cup {fileId}
  /\ UNCHANGED <<kbFiles, kbIsLoading, processingFiles, registry, nextFile,
                 kbUploads, kbProcess, kbTimers, kbPolls, pollsIssued, kbLoads,
                 loadsIssued, loadFailed, deleted, kbToast, notKb>>

\* the backend deleted the file and answered ok: loadKnowledgeBase()
kbDeleteOk(fileId) ==
  /\ fileId \in kbDeletes
  /\ fileId \in registry
  /\ kbDeletes' = kbDeletes \ {fileId}
  /\ registry' = registry \ {fileId}
  /\ deleted' = deleted \cup {fileId}
  /\ IssueLoad
  /\ kbToast' = "File deleted successfully"
  /\ UNCHANGED <<kbFiles, processingFiles, nextFile, kbUploads, kbProcess,
                 kbTimers, kbPolls, pollsIssued, loadFailed, notKb>>

\* a non-ok answer or a rejected fetch: only a toast
kbDeleteFailed(fileId) ==
  /\ fileId \in kbDeletes
  /\ kbDeletes' = kbDeletes \ {fileId}
  /\ kbToast' = "Failed to delete file"
  /\ UNCHANGED <<kbFiles, kbIsLoading, processingFiles, registry, nextFile,
                 kbUploads, kbProcess, kbTimers, kbPolls, pollsIssued, kbLoads,
                 loadsIssued, loadFailed, deleted, notKb>>

KbFileIds == 0..MaxUploads

(***************************************************************************)
(* Chat interface: report job handling.                                    *)
(***************************************************************************)
FileIds == {"f1", "f2"}

ServerReportIds == {"srv_1"}

\* arrays of distinct file ids
FileIdLists ==
  {<<>>} \cup {<<f>> : f \in FileIds}
         \cup {<<f, g>> : <<f, g>> \in {p \in FileIds \X FileIds : p[1] # p[2]}}

\* what the user can type into the input box
Inputs == {<<>>, <<" ">>, <<"h", "i">>}

\* reportStatus === null
NoReport ==
  [report_id |-> None, status |-> "null", download_url |-> None,
   error |-> None, progress |-> None]

\* `report_${Date.now()}`
ClientReportId(t) == "report_" \o ToString(t)

ExportUrl(id) == "/api/financial/export/" \o id

\* JSON bodies the chat endpoint can answer with
ChatReplies ==
  [status : {"success", "report_generated"},
   report_id : ServerReportIds \cup {None},
   download_url : {None, "/reports/download"}]

ErrorReply ==
  <<"S", "o", "r", "r", "y">>

IdleChat ==
  /\ message = <<>>
  /\ messages = <<>>
  /\ isLoading = FALSE
  /\ selectedFiles = <<>>
  /\ availableFiles = <<>>
  /\ reportStatus = NoReport
  /\ now = 0
  /\ chatReqs = {}
  /\ genReqs = {}
  /\ genIssued = 0
  /\ timers = {}
  /\ polls = {}
  /\ toast = None

\* onChange of the input box: setMessage(e.target.value)
SetMessage(m) ==
  /\ m # message
  /\ message' = m
  /\ UNCHANGED <<messages, isLoading, selectedFiles, reportStatus, now,
                 chatReqs, genReqs, genIssued, timers, polls, toast,
                 availableFiles, notChat>>

\* handleFileSelection: toggle one id
ToggleFile(prev, fileId) ==
  IF fileId \in Range(prev)
  THEN SelectSeq(prev, LAMBDA id : id # fileId)
  ELSE Append(prev, fileId)

handleFileSelection(fileId) ==
  /\ selectedFiles' = ToggleFile(selectedFiles, fileId)
  /\ UNCHANGED <<message, messages, isLoading, reportStatus, now, chatReqs,
                 genReqs, genIssued, timers, polls, toast, availableFiles,
                 notChat>>

\* autoSelectFiles: the response replaces the selection
autoSelectFiles(fileIds) ==
  /\ fileIds # selectedFiles
  /\ selectedFiles' = fileIds
  /\ toast' = IF Len(fileIds) > 0 THEN "Auto-selected relevant file(s)"
              ELSE toast
  /\ UNCHANGED <<message, messages, isLoading, reportStatus, now, chatReqs,
                 genReqs, genIssued, timers, polls, availableFiles, notChat>>

\* loadAvailableFiles settles: setAvailableFiles(data.files || [])
availableFilesLoaded(fileIds) ==
  /\ fileIds # availableFiles
  /\ availableFiles' = fileIds
  /\ UNCHANGED <<message, messages, isLoading, selectedFiles, reportStatus,
                 now, chatReqs, genReqs, genIssued, timers, polls, toast,
                 notChat>>

\* availableFiles.filter(f => selectedFiles.includes(f.id))
Attachments(available, selected) ==
  SelectSeq(available, LAMBDA id : id \in Range(selected))

\* handleSend up to its first await
handleSend ==
  /\ ~(Trim(message) = <<>> \/ isLoading)
  /\ Len(messages) < 2 * MaxSends
  /\ messages' =
       Append(messages,
              [type |-> "user", content |-> message,
               attachments |-> Attachments(availableFiles, selectedFiles)])
  /\ chatReqs' =
       chatReqs \cup {[message |-> message, file_ids |-> selectedFiles]}
  /\ message' = <<>>
  /\ isLoading' = TRUE
  /\ UNCHANGED <<selectedFiles, reportStatus, now, genReqs, genIssued, timers,
                 polls, toast, availableFiles, notChat>>

\* the prompts of the quick-action cards
ListDocumentsPrompt ==
  <<"L", "i", "s", "t", " ", "a", "l", "l", " ", "a", "v", "a", "i", "l",
    "a", "b", "l", "e", " ", "f", "i", "n", "a", "n", "c", "i", "a", "l",
    " ", "d", "o", "c", "u", "m", "e", "n", "t", "s">>

GenerateReportPrompt ==
  <<"G", "e", "n", "e", "r", "a", "t", "e", " ", "a", " ", "c", "o", "m",
    "p", "r", "e", "h", "e", "n", "s", "i", "v", "e", " ", "f", "i", "n",
    "a", "n", "c", "i", "a", "l", " ", "a", "n", "a", "l", "y", "s", "i",
    "s", " ", "r", "e", "p", "o", "r", "t">>

QuickPrompts == {ListDocumentsPrompt, GenerateReportPrompt}

\* onClick of a quick-action card, shown while there are no messages:
\* setMessage(prompt); handleSend(). handleSend is the function of the
\* current render and reads that render's message and isLoading.
quickAction(prompt) ==
  /\ Len(messages) = 0
  /\ IF Trim(message) = <<>> \/ isLoading
     THEN /\ message' = prompt
          /\ UNCHANGED <<messages, isLoading, selectedFiles, reportStatus,
                         now, chatReqs, genReqs, genIssued, timers, polls,
                         toast, availableFiles, notChat>>
     ELSE handleSend

\* the reportStatus written by handleSend for a reply
ReplyReportStatus(reply, cur) ==
  IF reply.status = "report_generated" /\ reply.report_id # None
  THEN [report_id |-> reply.report_id, status |-> "completed",
        download_url |-> reply.download_url, error |-> None, progress |-> None]
  ELSE cur

\* handleSend after response.json() of an ok response
handleSendReply(req, reply) ==
  /\ req \in chatReqs
  /\ chatReqs' = chatReqs \ {req}
  /\ messages' = Append(messages, [type |-> "bot", content |-> <<"o", "k">>])
  /\ reportStatus' = ReplyReportStatus(reply, reportStatus)
  /\ toast' = IF reply.status = "report_generated" /\ reply.report_id # None
              THEN "Report generated successfully!" ELSE toast
  /\ isLoading' = FALSE
  /\ UNCHANGED <<message, selectedFiles, now, genReqs, genIssued, timers,
                 polls, availableFiles, notChat>>

\* a catch block that shows no message
handleSendError_Silent(req) ==
  /\ req \in chatReqs
  /\ chatReqs' = chatReqs \ {req}
  /\ isLoading' = FALSE
  /\ UNCHANGED <<message, messages, selectedFiles, reportStatus, now, genReqs,
                 genIssued, timers, polls, toast, availableFiles, notChat>>

\* handleSend's catch: a non-ok response or a rejected fetch
handleSendError(req) ==
  /\ req \in chatReqs
  /\ chatReqs' = chatReqs \ {req}
  /\ messages' = Append(messages, [type |-> "bot", content |-> ErrorReply])
  /\ isLoading' = FALSE
  /\ UNCHANGED <<message, selectedFiles, reportStatus, now, genReqs, genIssued,
                 timers, polls, toast, availableFiles, notChat>>

\* a guard that only rejects a missing selection, not an empty one
GenerateRejected_NullOnly(sel) == FALSE

\* handleGenerateReport's guard
GenerateRejected(sel) == Len(sel) = 0

\* handleGenerateReport up to its first await
handleGenerateReport ==
  IF GenerateRejected(selectedFiles)
  THEN /\ toast' = "Please select files to generate a report"
       /\ UNCHANGED <<message, messages, isLoading, selectedFiles,
                      reportStatus, now, chatReqs, genReqs, genIssued, timers,
                      polls, availableFiles, notChat>>
  ELSE /\ now < MaxReports
       /\ now' = now + 1
       /\ reportStatus' =
            [report_id |-> ClientReportId(now'), status |-> "generating",
             download_url |-> None, error |-> None, progress |-> "0"]
       /\ genReqs' = genReqs \cup
            {[reportId |-> ClientReportId(now'), file_ids |-> selectedFiles]}
       /\ genIssued' = genIssued + 1
       /\ UNCHANGED <<message, messages, isLoading, selectedFiles, chatReqs,
                      timers, polls, toast, availableFiles, notChat>>

\* response.ok: setTimeout(checkStatus, 5000) for data.report_id
generateStarted(req, report_id) ==
  /\ req \in genReqs
  /\ genReqs' = genReqs \ {req}
  /\ timers' = timers \cup {[job |-> req.reportId, report_id |-> report_id]}
  /\ toast' = "Report generation started!"
  /\ UNCHANGED <<message, messages, isLoading, selectedFiles, reportStatus,
                 now, chatReqs, genIssued, polls, availableFiles, notChat>>

\* the catch of handleGenerateReport: rejected fetch, unparsable body or
\* a non-ok response (throw new Error(data.detail || "Failed to start ..."))
generateFailed(req, detail) ==
  /\ req \in genReqs
  /\ genReqs' = genReqs \ {req}
  /\ reportStatus' =
       [report_id |-> req.reportId, status |-> "error", download_url |-> None,
        error |-> detail, progress |-> None]
  /\ toast' = "Failed to generate report"
  /\ UNCHANGED <<message, messages, isLoading, selectedFiles, now, chatReqs,
                 genIssued, timers, polls, availableFiles, notChat>>

\* the 5-second timer fires: checkStatus issues its fetch
checkStatus(t) ==
  /\ t \in timers
  /\ timers' = timers \ {t}
  /\ polls' = polls \cup {t}
  /\ UNCHANGED <<message, messages, isLoading, selectedFiles, reportStatus,
                 now, chatReqs, genReqs, genIssued, toast, availableFiles,
                 notChat>>

\* the reportStatus written by checkStatus for a status response
PolledReportStatus(p, ok, cur) ==
  IF ok
  THEN [report_id |-> p.report_id, status |-> "completed",
        download_url |-> ExportUrl(p.report_id), error |-> None,
        progress |-> None]
  ELSE cur

\* a checkStatus that resets the selection once the report is ready
checkStatusSettled_ClearsSelection(p, ok) ==
  /\ p \in polls
  /\ polls' = polls \ {p}
  /\ reportStatus' = PolledReportStatus(p, ok, reportStatus)
  /\ toast' = IF ok THEN "Report ready for download!" ELSE toast
  /\ selectedFiles' = IF ok THEN <<>> ELSE selectedFiles
  /\ UNCHANGED <<message, messages, isLoading, now, chatReqs, genReqs,
                 genIssued, timers, availableFiles, notChat>>

\* the status fetch settles: ok, non-ok, or rejected (caught and logged)
checkStatusSettled(p, ok) ==
  /\ p \in polls
  /\ polls' = polls \ {p}
  /\ reportStatus' = PolledReportStatus(p, ok, reportStatus)
  /\ toast' = IF ok THEN "Report ready for download!" ELSE toast
  /\ UNCHANGED <<message, messages, isLoading, selectedFiles, now, chatReqs,
                 genReqs, genIssued, timers, availableFiles, notChat>>

GenerateErrors == {"Failed to start report generation"}

(***************************************************************************)
(* File search: the clients' searchFiles / searchKnowledgeBase and the      *)
(* POST /api/enhanced/files/search route.                                  *)
(***************************************************************************)
\* the query strings of the model: empty, blank, a word
SearchQueries == {<<>>, <<" ">>, <<"t", "a", "x">>}

\* the results a backend search can answer with
Hits == {<<>>, <<"f1">>}

\* what the backend does with a forwarded search
BackendSearchOutcomes ==
  {[ok |-> TRUE, results |-> h] : h \in Hits}
    \cup {[ok |-> FALSE, results |-> <<>>]}

\* per client: the value of its search input (searchQuery), the request
\* issued for that value (0: none), the request whose response is shown
\* (0: none) and the requests whose responses the client has read
NoTrack == [query |-> <<>>, latest |-> 0, shown |-> 0, delivered |-> {}]

\* the input's onChange: setSearchQuery(e.target.value), then the search
Entered(track, query, request) ==
  [track EXCEPT !.query = query, !.latest = request,
                !.shown = IF request = 0 THEN 0 ELSE @]

IdleSearch ==
  /\ searchResults = <<>>
  /\ isSearching = FALSE
  /\ kbSearchResults = <<>>
  /\ searchReqs = {}
  /\ searchResps = {}
  /\ searchLog = {}
  /\ searchesIssued = 0
  /\ searchToast = None
  /\ searchTrack = [chat |-> NoTrack, kb |-> NoTrack]

\* the request a client posts to /api/enhanced/files/search
SearchRequest(from, hasQuery, query, limit) ==
  [id |-> searchesIssued + 1, from |-> from, hasQuery |-> hasQuery,
   query |-> query, limit |-> limit]

\* searchFiles of the chat interface, up to its await
searchFiles(query) ==
  IF Trim(query) = <<>>
  THEN /\ searchResults' = <<>>
       /\ searchTrack' =
            [searchTrack EXCEPT !.chat = Entered(@, query, 0)]
       /\ UNCHANGED <<isSearching, kbSearchResults, searchReqs, searchResps,
                      searchLog, searchesIssued, searchToast, notSearch>>
  ELSE /\ searchesIssued < MaxSearches
       /\ isSearching' = TRUE
       /\ searchReqs' = searchReqs \cup {SearchRequest("chat", TRUE, query, 10)}
       /\ searchesIssued' = searchesIssued + 1
       /\ searchTrack' =
            [searchTrack EXCEPT
               !.chat = Entered(@, query, searchesIssued + 1)]
       /\ UNCHANGED <<searchResults, kbSearchResults, searchResps, searchLog,
                      searchToast, notSearch>>

\* searchKnowledgeBase of the Knowledge Base manager, up to its await
searchKnowledgeBase(query) ==
  IF Trim(query) = <<>>
  THEN /\ kbSearchResults' = <<>>
       /\ searchTrack' = [searchTrack EXCEPT !.kb = Entered(@, query, 0)]
       /\ UNCHANGED <<searchResults, isSearching, searchReqs, searchResps,
                      searchLog, searchesIssued, searchToast, notSearch>>
  ELSE /\ searchesIssued < MaxSearches
       /\ searchReqs' = searchReqs \cup {SearchRequest("kb", TRUE, query, 20)}
       /\ searchesIssued' = searchesIssued + 1
       /\ searchTrack' =
            [searchTrack EXCEPT !.kb = Entered(@, query, searchesIssued + 1)]
       /\ UNCHANGED <<searchResults, isSearching, kbSearchResults, searchResps,
                      searchLog, searchToast, notSearch>>

\* the search input of the Knowledge Base manager's files tab: it searches
\* only when the value is not blank
filesTabSearchInput(query) ==
  IF Trim(query) # <<>>
  THEN searchKnowledgeBase(query)
  ELSE /\ searchTrack.kb.query # query
       /\ searchTrack' =
            [searchTrack EXCEPT !.kb.query = query, !.kb.latest = 0]
       /\ UNCHANGED <<searchResults, isSearching, kbSearchResults, searchReqs,
                      searchResps, searchLog, searchesIssued, searchToast,
                      notSearch>>

\* any other caller of the route posts a body, with or without a query
directSearch(hasQuery, query) ==
  /\ searchesIssued < MaxSearches
  /\ hasQuery \/ query = <<>>
  /\ searchReqs' =
       searchReqs \cup {SearchRequest("direct", hasQuery, query, 10)}
  /\ searchesIssued' = searchesIssued + 1
  /\ UNCHANGED <<searchResults, isSearching, kbSearchResults, searchResps,
                 searchLog, searchToast, searchTrack, notSearch>>

\* JavaScript's !query for a string or a missing field
Falsy(hasQuery, query) == ~hasQuery \/ query = <<>>

\* the response of the route's POST handler
SearchRouteResponse(req, backend) ==
  IF Falsy(req.hasQuery, req.query)
  THEN [status |-> 400, error |-> "Query parameter is required",
        hasResults |-> FALSE, results |-> <<>>]
  ELSE IF backend.ok
  THEN [status |-> 200, error |-> None, hasResults |-> TRUE,
        results |-> backend.results]
  ELSE [status |-> 500, error |-> "Failed to search files",
        hasResults |-> FALSE, results |-> <<>>]

\* POST /api/enhanced/files/search handles one request
searchPOST(req, backend) ==
  /\ req \in searchReqs
  /\ searchReqs' = searchReqs \ {req}
  /\ searchResps' = searchResps \cup
       {[req |-> req, resp |-> SearchRouteResponse(req, backend)]}
  /\ searchLog' = searchLog \cup
       {[hasQuery |-> req.hasQuery, query |-> req.query,
         resp |-> SearchRouteResponse(req, backend)]}
  /\ UNCHANGED <<searchResults, isSearching, kbSearchResults, searchesIssued,
                 searchToast, searchTrack, notSearch>>

\* data.results || []
ResultsOrEmpty(resp) == IF resp.hasResults THEN resp.results ELSE <<>>

\* the client reads the response: setSearchResults(data.results || [])
searchSettled(r) ==
  /\ r \in searchResps
  /\ searchResps' = searchResps \ {r}
  /\ searchResults' = IF r.req.from = "chat" THEN ResultsOrEmpty(r.resp)
                      ELSE searchResults
  /\ isSearching' = IF r.req.from = "chat" THEN FALSE ELSE isSearching
  /\ kbSearchResults' = IF r.req.from = "kb" THEN ResultsOrEmpty(r.resp)
                        ELSE kbSearchResults
  /\ searchTrack' =
       IF r.req.from = "direct" THEN searchTrack
       ELSE [searchTrack EXCEPT
               ![r.req.from].shown = r.req.id,
               ![r.req.from].delivered = @ \cup {r.req.id}]
  /\ UNCHANGED <<searchReqs, searchLog, searchesIssued, searchToast,
                 notSearch>>

\* the client's fetch is rejected: the catch shows a toast
searchRejected(req) ==
  /\ req \in searchReqs
  /\ req.from # "direct"
  /\ searchReqs' = searchReqs \ {req}
  /\ searchToast' = IF req.from = "chat" THEN "Failed to search files"
                    ELSE "Search failed"
  /\ isSearching' = IF req.from = "chat" THEN FALSE ELSE isSearching
  /\ UNCHANGED <<searchResults, kbSearchResults, searchResps, searchLog,
                 searchesIssued, searchTrack, notSearch>>

(***************************************************************************)
(* Keyword file filter of the knowledge-base pages (filteredFiles).        *)
(***************************************************************************)
ReportPdf ==
  <<"F", "i", "n", "a", "n", "c", "i", "a", "l", " ", "R", "e", "p", "o",
    "r", "t", " ", "Q", "3", " ", "2", "0", "2", "4", ".", "p", "d", "f">>

TaxDocx ==
  <<"T", "a", "x", " ", "G", "u", "i", "d", "e", "l", "i", "n", "e", "s",
    " ", "2", "0", "2", "4", ".", "d", "o", "c", "x">>

PoliciesTxt ==
  <<"C", "o", "m", "p", "a", "n", "y", " ", "P", "o", "l", "i", "c", "i",
    "e", "s", ".", "t", "x", "t">>

\* the file names of the model: the page's three initial files
ModelNames == {ReportPdf, TaxDocx, PoliciesTxt}

\* what the user can type into the search box
SearchTerms ==
  {<<>>, <<"r", "e", "p", "o", "r", "t">>, <<"T", "A", "X">>,
   <<"2", "0", "2", "4">>, <<"x", "y", "z">>,
   <<"q", "3", " ", "2", "0", "2", "4", ".", "P", "D", "F">>}

\* file lists of at most MaxListed files, ids by position
FileListsOf(n) ==
  {[i \in 1..n |-> [id |-> i, name |-> names[i]]] :
     names \in [1..n -> ModelNames]}

ListedFiles == UNION {FileListsOf(n) : n \in 0..MaxListed}

NoFilter == <<[id |-> 0, name |-> <<>>]>>

IdleFilter ==
  /\ listed = <<>>
  /\ searchTerm = <<>>
  /\ filtered = NoFilter

StartFilter ==
  /\ listed \in ListedFiles
  /\ searchTerm \in SearchTerms
  /\ filtered = NoFilter

\* a filter that compares the name as typed
filteredFiles_CaseSensitive(fs, term) ==
  SelectSeq(fs, LAMBDA file : Includes(file.name, ToLowerCase(term)))

\* files.filter(file => file.name.toLowerCase().includes(
\*   searchTerm.toLowerCase()))
filteredFiles(fs, term) ==
  SelectSeq(fs,
            LAMBDA file : Includes(ToLowerCase(file.name), ToLowerCase(term)))

\* a render computes filteredFiles from files and searchTerm
renderFiltered ==
  /\ filtered = NoFilter
  /\ filtered' = filteredFiles(listed, searchTerm)
  /\ UNCHANGED <<listed, searchTerm, notFilter>>

(***************************************************************************)
(* transformTableData of the backend-proxy upload route.                   *)
(***************************************************************************)
\* JavaScript values: a tag and the text of the value
Str(v) == [t |-> "string", v |-> v]

Num(v) == [t |-> "number", v |-> v]

Undefined == [t |-> "undefined", v |-> ""]

\* the values a backend row can hold
CellValues == {Str("Cash"), Num("5"), Str("")}

\* the keys a backend row can have
ItemKey == <<"I", "t", "e", "m">>

Fy2024Key == <<"F", "Y", "2", "0", "2", "4">>

Fy2023Key == <<"F", "Y", "2", "0", "2", "3">>

CurrentKey == <<"C", "u", "r", "r", "e", "n", "t">>

LastYearKey == <<"L", "a", "s", "t", " ", "Y", "e", "a", "r">>

NoteKey == <<"N", "o", "t", "e">>

ModelKeys == {ItemKey, Fy2024Key, Fy2023Key, CurrentKey, LastYearKey, NoteKey}

\* Object.keys(item): n distinct keys in insertion order
KeyOrders(n) ==
  {ks \in [1..n -> ModelKeys] : \A i, j \in 1..n : ks[i] = ks[j] => i = j}

\* backend rows: objects of at most MaxKeys keys, and a non-object entry
ObjectItems ==
  UNION {{[object |-> TRUE, keys |-> ks, values |-> vs] :
            ks \in KeyOrders(n), vs \in [1..n -> CellValues]} :
         n \in 0..MaxKeys}

BackendItems ==
  ObjectItems \cup {[object |-> FALSE, keys |-> <<>>, values |-> <<>>]}

\* what analysisResult.tables?.balance_sheet || [] can be
BackendTables ==
  {[isArray |-> TRUE, items |-> <<>>], [isArray |-> FALSE, items |-> <<>>]}
    \cup {[isArray |-> TRUE, items |-> <<it>>] : it \in BackendItems}

NoTransform == <<[indicator |-> Undefined]>>

IdleTransform ==
  /\ backendData = [isArray |-> TRUE, items |-> <<>>]
  /\ transformed = NoTransform
  /\ chosenKeys = <<>>

StartTransform ==
  /\ backendData \in BackendTables
  /\ transformed = NoTransform
  /\ chosenKeys = <<>>

\* keys.find(pred): the first of the indexes whose key satisfies pred, 0
\* for undefined
FirstKey(hits) ==
  IF hits = {} THEN 0 ELSE CHOOSE i \in hits : \A j \in hits : i <= j

\* a || b for key indexes
OrKey(found, fallback, keys) ==
  IF found # 0 THEN found ELSE IF fallback <= Len(keys) THEN fallback ELSE 0

IsIndicatorKey(key, i) ==
  \/ Includes(ToLowerCase(key), <<"i", "n", "d", "i", "c", "a", "t", "o", "r">>)
  \/ Includes(ToLowerCase(key), <<"i", "t", "e", "m">>)
  \/ Includes(ToLowerCase(key), <<"n", "a", "m", "e">>)
  \/ i = 1

IsCurrentYearKey(key, i) ==
  \/ Includes(key, <<"2", "0", "2", "4">>)
  \/ Includes(ToLowerCase(key), <<"c", "u", "r", "r", "e", "n", "t">>)
  \/ Includes(ToLowerCase(key), <<"t", "h", "i", "s">>)
  \/ i = 2

IsPreviousYearKey(key, i) ==
  \/ Includes(key, <<"2", "0", "2", "3">>)
  \/ Includes(ToLowerCase(key), <<"p", "r", "e", "v", "i", "o", "u", "s">>)
  \/ Includes(ToLowerCase(key), <<"l", "a", "s", "t">>)
  \/ i = 3

\* the indexes of the keys that satisfy each find predicate
IndicatorHits(keys) == {i \in 1..Len(keys) : IsIndicatorKey(keys[i], i)}

CurrentYearHits(keys) == {i \in 1..Len(keys) : IsCurrentYearKey(keys[i], i)}

PreviousYearHits(keys) ==
  {i \in 1..Len(keys) : IsPreviousYearKey(keys[i], i)}

\* the three keys transformTableData picks for a row, as key indexes
ChosenKeys(item) ==
  [indicatorKey |-> OrKey(FirstKey(IndicatorHits(item.keys)), 1, item.keys),
   currentYearKey |->
     OrKey(FirstKey(CurrentYearHits(item.keys)), 2, item.keys),
   previousYearKey |->
     OrKey(FirstKey(PreviousYearHits(item.keys)), 3, item.keys)]

\* item[key]
ValueAt(item, k) == IF k = 0 THEN Undefined ELSE item.values[k]

\* JavaScript falsiness of a value
FalsyValue(v) ==
  \/ v.t = "undefined"
  \/ v.t = "string" /\ v.v = ""
  \/ v.t = "number" /\ v.v = "0"

\* a || b for values
OrValue(v, default) == IF FalsyValue(v) THEN default ELSE v

\* the row transformTableData returns for one backend entry
TransformItem(item) ==
  IF item.object
  THEN LET ck == ChosenKeys(item)
       IN [indicator |->
             OrValue(ValueAt(item, ck.indicatorKey), Str("Unknown")),
           currentYear |->
             OrValue(ValueAt(item, ck.currentYearKey), Num("0")),
           previousYear |->
             OrValue(ValueAt(item, ck.previousYearKey), Num("0"))]
  ELSE [indicator |-> Str("Unknown"), currentYear |-> Num("0"),
        previousYear |-> Num("0")]

\* transformTableData(backendData)
TransformTableData(table) ==
  IF ~table.isArray THEN <<>>
  ELSE [i \in 1..Len(table.items) |-> TransformItem(table.items[i])]

\* the route transforms one backend table
transformTableData ==
  /\ transformed = NoTransform
  /\ transformed' = TransformTableData(backendData)
  /\ chosenKeys' =
       [i \in 1..Len(backendData.items) |->
          IF backendData.items[i].object
          THEN ChosenKeys(backendData.items[i])
          ELSE [indicatorKey |-> 0, currentYearKey |-> 0,
                previousYearKey |-> 0]]
  /\ UNCHANGED <<backendData, notTransform>>

(***************************************************************************)
(* The Next.js API routes that proxy the backend: what each answers when   *)
(* the backend call succeeds, is answered non-ok, or is rejected.          *)
(***************************************************************************)
\* error texts a backend or the network layer can supply
ErrorDetails == {"connect ECONNREFUSED 127.0.0.1:8000", "KeyError: 'Sheet1'"}

\* how a backend call ends: ok, a non-ok response carrying a detail, or a
\* rejected fetch whose Error carries a detail
BackendOutcomes ==
  {[kind |-> "ok", detail |-> None]}
    \cup [kind : {"notok", "threw"}, detail : ErrorDetails]

\* the status of the backend's non-ok responses
BackendErrorStatus == 503

\* the tables a successful analysis can carry
AnalysisTables ==
  {[isArray |-> TRUE, items |-> <<>>],
   [isArray |-> TRUE,
    items |-> <<[object |-> TRUE, keys |-> <<ItemKey, Fy2024Key, Fy2023Key>>,
                 values |-> <<Str("Cash"), Num("5"), Num("5")>>]>>]}

IdleRoutes == routeLog = {}

\* a response body: the error text, the payload passed on, the tables
Body(error, payload, tables) ==
  [error |-> error, payload |-> payload, tables |-> tables]

\* a required body field, as the log records it
Field(present) == IF present THEN "present" ELSE "missing"

\* the log entry of one handled request
Answered(route, request, outcome, status, body) ==
  [route |-> route, request |-> request, kind |-> outcome.kind,
   detail |-> outcome.detail, status |-> status, body |-> body]

\* POST /api/chat
ChatRouteResponse(hasMessage, o) ==
  IF ~hasMessage
  THEN [status |-> 400, body |-> Body("Message is required", None, <<>>)]
  ELSE IF o.kind = "threw"
  THEN [status |-> 500,
        body |-> Body("Failed to process chat message", None, <<>>)]
  ELSE IF o.kind = "notok"
  THEN [status |-> BackendErrorStatus,
        body |-> Body("Backend chat service unavailable", None, <<>>)]
  ELSE [status |-> 200, body |-> Body(None, "response", <<>>)]

chatPOST(hasMessage, o) ==
  /\ Cardinality(routeLog) < MaxRouteCalls
  /\ LET r == ChatRouteResponse(hasMessage, o)
     IN routeLog' = routeLog \cup
          {Answered("/api/chat", Field(hasMessage), o, r.status, r.body)}
  /\ UNCHANGED notRoutes

\* POST /api/enhanced/chat: a non-ok answer throws Error(errorData.detail),
\* and the catch answers with its own text
EnhancedChatRouteResponse(hasMessage, o) ==
  IF ~hasMessage
  THEN [status |-> 400,
        body |-> Body("Message parameter is required", None, <<>>)]
  ELSE IF o.kind = "ok"
  THEN [status |-> 200, body |-> Body(None, "data", <<>>)]
  ELSE [status |-> 500, body |-> Body("Failed to process message", None, <<>>)]

enhancedChatPOST(hasMessage, o) ==
  /\ Cardinality(routeLog) < MaxRouteCalls
  /\ LET r == EnhancedChatRouteResponse(hasMessage, o)
     IN routeLog' = routeLog \cup
          {Answered("/api/enhanced/chat", Field(hasMessage), o, r.status,
                    r.body)}
  /\ UNCHANGED notRoutes

\* POST /api/enhanced/files/auto-select
AutoSelectRouteResponse(hasContext, o) ==
  IF ~hasContext
  THEN [status |-> 400,
        body |-> Body("Context parameter is required", None, <<>>)]
  ELSE IF o.kind = "ok"
  THEN [status |-> 200, body |-> Body(None, "data", <<>>)]
  ELSE [status |-> 500,
        body |-> Body("Failed to auto-select files", None, <<>>)]

autoSelectPOST(hasContext, o) ==
  /\ Cardinality(routeLog) < MaxRouteCalls
  /\ LET r == AutoSelectRouteResponse(hasContext, o)
     IN routeLog' = routeLog \cup
          {Answered("/api/enhanced/files/auto-select", Field(hasContext), o,
                    r.status, r.body)}
  /\ UNCHANGED notRoutes

\* GET /api/enhanced/files/available
AvailableRouteResponse(o) ==
  IF o.kind = "ok"
  THEN [status |-> 200, body |-> Body(None, "data", <<>>)]
  ELSE [status |-> 500,
        body |-> Body("Failed to fetch available files", None, <<>>)]

availableGET(o) ==
  /\ Cardinality(routeLog) < MaxRouteCalls
  /\ LET r == AvailableRouteResponse(o)
     IN routeLog' = routeLog \cup
          {Answered("/api/enhanced/files/available", "none", o, r.status,
                    r.body)}
  /\ UNCHANGED notRoutes

\* the message of the Error the backend-proxy upload route catches
UploadProxyErrorMessage(step, o) ==
  IF o.kind = "threw" THEN o.detail
  ELSE IF step = "upload" THEN "Backend upload failed: " \o o.detail
  ELSE "Backend analysis failed: " \o o.detail

\* POST /api/financial/upload (backend proxy): the upload call ends as
\* `up`, the analyze call as `an`, a successful analysis carries `table`
UploadProxyResponse(up, an, table) ==
  IF up.kind # "ok"
  THEN [status |-> 500,
        body |-> Body(UploadProxyErrorMessage("upload", up), None, <<>>)]
  ELSE IF an.kind # "ok"
  THEN [status |-> 500,
        body |-> Body(UploadProxyErrorMessage("analyze", an), None, <<>>)]
  ELSE [status |-> 200,
        body |-> Body(None, "report", TransformTableData(table))]

uploadProxyPOST(up, an, table) ==
  /\ Cardinality(routeLog) < MaxRouteCalls
  /\ up.kind # "ok" => an = up
  /\ LET r == UploadProxyResponse(up, an, table)
     IN routeLog' = routeLog \cup
          {Answered("/api/financial/upload",
                    IF up.kind = "ok" THEN "analyze" ELSE "upload",
                    an, r.status, r.body)}
  /\ UNCHANGED notRoutes

(***************************************************************************)
(* Mounting and unmounting the chat interface: the session id kept in      *)
(* localStorage under 'chat_session_id', the user preferences kept under   *)
(* 'chat_preferences'.                                                     *)
(***************************************************************************)
\* the positions of the 'Max context files' slider used here (min 1, max 10)
ContextSizes == {1, 5, 10}

Preferences(autoProcess, maxFiles, showSources) ==
  [autoProcess |-> autoProcess, maxFiles |-> maxFiles,
   showSources |-> showSources]

\* useState(true), useState(5), useState(true)
DefaultPreferences == Preferences(TRUE, 5, TRUE)

\* the preferences in effect
CurrentPreferences ==
  Preferences(autoProcessFiles, maxContextFiles, showSourceExcerpts)

\* JSON text of a boolean
BoolText(b) == IF b THEN "true" ELSE "false"

\* localStorage.getItem("chat_preferences") === null
NoPreferences ==
  [present |-> FALSE, autoProcess |-> "", maxFiles |-> "", showSources |-> ""]

\* saveUserPreferences: the item JSON.stringify({autoProcess, maxFiles,
\* showSources}) leaves in localStorage, member by member
saveUserPreferences(prefs) ==
  [present |-> TRUE, autoProcess |-> BoolText(prefs.autoProcess),
   maxFiles |-> ToString(prefs.maxFiles),
   showSources |-> BoolText(prefs.showSources)]

\* JSON.parse of a member written by JSON.stringify
ParseBool(text) == text = "true"

ParseNumber(text) == CHOOSE n \in 0..10 : ToString(n) = text

\* loadUserPreferences: the values its three setState calls leave, the
\* current ones when the item is missing
loadUserPreferences(item, current) ==
  IF item.present
  THEN Preferences(ParseBool(item.autoProcess), ParseNumber(item.maxFiles),
                   ParseBool(item.showSources))
  ELSE current

\* a mount whose save effect runs before the session effect
MountEffects_SaveFirst(item) ==
  LET saved == saveUserPreferences(DefaultPreferences)
      loaded == loadUserPreferences(saved, DefaultPreferences)
  IN  [state |-> loaded, item |-> saveUserPreferences(loaded)]

\* the effects of a mount in order: the session effect loads the item, the
\* save effect writes the values of the first render (the defaults), and
\* the render with the loaded values runs the save effect again when they
\* differ from the defaults
MountEffects(item) ==
  LET loaded == loadUserPreferences(item, DefaultPreferences)
      firstSave == saveUserPreferences(DefaultPreferences)
  IN  [state |-> loaded,
       item |-> IF loaded # DefaultPreferences
                THEN saveUserPreferences(loaded)
                ELSE firstSave]

\* generateSessionId(): `session_${Date.now()}_${random}`
generateSessionId(t) == "session_" \o ToString(t)

\* nothing has been unmounted yet
NoSnapshot ==
  [taken |-> FALSE, sessionId |-> "", messages |-> <<>>,
   selectedFiles |-> <<>>, preferences |-> DefaultPreferences]

\* the interface after its first mount on a browser without a stored id
IdleSession ==
  /\ mounted = TRUE
  /\ sessionId = generateSessionId(0)
  /\ storedSessionId = generateSessionId(0)
  /\ sessionClock = 0
  /\ atUnmount = NoSnapshot
  /\ mounts = 1
  /\ autoProcessFiles = DefaultPreferences.autoProcess
  /\ maxContextFiles = DefaultPreferences.maxFiles
  /\ showSourceExcerpts = DefaultPreferences.showSources
  /\ storedPreferences = MountEffects(NoPreferences).item

\* the page is left: the component's state is what it was at this moment
unmount ==
  /\ mounted
  /\ mounted' = FALSE
  /\ atUnmount' =
       [taken |-> TRUE, sessionId |-> sessionId, messages |-> messages,
        selectedFiles |-> selectedFiles, preferences |-> CurrentPreferences]
  /\ sessionClock' = sessionClock + 1
  /\ UNCHANGED <<sessionId, storedSessionId, mounts, autoProcessFiles,
                 maxContextFiles, showSourceExcerpts, storedPreferences,
                 notSession>>

\* localStorage.getItem("chat_session_id") || generateSessionId()
MountSessionId(saved, t) == IF saved # "" THEN saved ELSE generateSessionId(t)

\* the browser's site data is cleared while the page is closed
clearSiteData ==
  /\ ~mounted
  /\ storedSessionId # ""
  /\ storedSessionId' = ""
  /\ storedPreferences' = NoPreferences
  /\ atUnmount' = NoSnapshot
  /\ UNCHANGED <<mounted, sessionId, sessionClock, mounts, autoProcessFiles,
                 maxContextFiles, showSourceExcerpts, notSession>>

\* the settings dialog: a switch or the slider is moved, and the save
\* effect runs after the render
setAutoProcessFiles(v) ==
  /\ mounted
  /\ v # autoProcessFiles
  /\ autoProcessFiles' = v
  /\ storedPreferences' =
       saveUserPreferences([CurrentPreferences EXCEPT !.autoProcess = v])
  /\ UNCHANGED <<mounted, sessionId, storedSessionId, sessionClock,
                 atUnmount, mounts, maxContextFiles, showSourceExcerpts,
                 notSession>>

setMaxContextFiles(v) ==
  /\ mounted
  /\ v # maxContextFiles
  /\ maxContextFiles' = v
  /\ storedPreferences' =
       saveUserPreferences([CurrentPreferences EXCEPT !.maxFiles = v])
  /\ UNCHANGED <<mounted, sessionId, storedSessionId, sessionClock,
                 atUnmount, mounts, autoProcessFiles, showSourceExcerpts,
                 notSession>>

setShowSourceExcerpts(v) ==
  /\ mounted
  /\ v # showSourceExcerpts
  /\ showSourceExcerpts' = v
  /\ storedPreferences' =
       saveUserPreferences([CurrentPreferences EXCEPT !.showSources = v])
  /\ UNCHANGED <<mounted, sessionId, storedSessionId, sessionClock,
                 atUnmount, mounts, autoProcessFiles, maxContextFiles,
                 notSession>>

\* the page is opened again: useState initial values, then the session
\* effect and the save effect; responses to requests of the previous mount
\* are dropped
mount ==
  /\ ~mounted
  /\ mounts < MaxMounts
  /\ mounts' = mounts + 1
  /\ mounted' = TRUE
  /\ message' = <<>>
  /\ messages' = <<>>
  /\ isLoading' = FALSE
  /\ selectedFiles' = <<>>
  /\ reportStatus' = NoReport
  /\ chatReqs' = {}
  /\ sessionId' = MountSessionId(storedSessionId, sessionClock)
  /\ storedSessionId' =
       IF storedSessionId = ""
       THEN MountSessionId(storedSessionId, sessionClock)
       ELSE storedSessionId
  /\ availableFiles' = <<>>
  /\ LET after == MountEffects(storedPreferences)
     IN  /\ autoProcessFiles' = after.state.autoProcess
         /\ maxContextFiles' = after.state.maxFiles
         /\ showSourceExcerpts' = after.state.showSources
         /\ storedPreferences' = after.item
  /\ UNCHANGED <<now, genReqs, genIssued, timers, polls, toast, sessionClock,
                 atUnmount, parseVars, uploadVars, exportVars, kbVars,
                 searchVars, filterVars, transformVars, routesVars,
                 filesVars, intakeVars, basicVars>>

\* the chat endpoint's plain answer
PlainReply ==
  [status |-> "success", report_id |-> None, download_url |-> None]

(***************************************************************************)
(* The file list of the knowledge-base pages: processFiles with its        *)
(* progress timers, completion timeouts and upload requests, removeFile.   *)
(* ChatInterface simulates every upload with an interval; the KnowledgeBase *)
(* page uploads Excel files and simulates the others with an interval and  *)
(* a timeout; its earlier version (KnowledgeBaseSimulated) simulates all.  *)
(***************************************************************************)
Pages == {"ChatInterface", "KnowledgeBase", "KnowledgeBaseSimulated"}

\* the pages whose simulated uploads run an interval and a 1500 ms timeout
TimerPages == {"KnowledgeBase", "KnowledgeBaseSimulated"}

BookXlsx == <<"b", ".", "x", "l", "s", "x">>

OldXls == <<"o", ".", "x", "l", "s">>

MemoTxt == <<"m", ".", "t", "x", "t">>

\* the names of the files a user drops
DroppedNames == {BookXlsx, OldXls, MemoTxt}

\* the batches a user can drop: one or more files, names may repeat
FileBatches == UNION {[1..n -> DroppedNames] : n \in 1..MaxFiles}

\* Math.random().toString(36).substr(2, 9): an id not seen before
RandomId(n) == "r" \o ToString(n)

UploadedFile(id, name, status, progress) ==
  [id |-> id, name |-> name, status |-> status, progress |-> progress]

\* the three files the KnowledgeBase pages start with
InitialFiles ==
  <<UploadedFile("1", ReportPdf, "completed", 100),
    UploadedFile("2", TaxDocx, "completed", 100),
    UploadedFile("3", PoliciesTxt, "completed", 100)>>

IdleFiles ==
  /\ page = "ChatInterface"
  /\ files = <<>>
  /\ nextId = 0
  /\ tickers = {}
  /\ timeouts = {}
  /\ fileUploads = {}
  /\ removed = {}
  /\ lateFired = {}

StartFiles ==
  /\ page \in Pages
  /\ files = IF page \in TimerPages THEN InitialFiles ELSE <<>>
  /\ nextId = 0
  /\ tickers = {}
  /\ timeouts = {}
  /\ fileUploads = {}
  /\ removed = {}
  /\ lateFired = {}

\* fileList.map(...): the new entries, ids n+1, n+2, ...
NewFiles(fileList, n) ==
  [i \in 1..Len(fileList) |->
     UploadedFile(RandomId(n + i), fileList[i], "uploading", 0)]

\* an update that adds the entry when no entry has the id
PatchFile_Upsert(prev, id, status, progress) ==
  IF \E i \in 1..Len(prev) : prev[i].id = id
  THEN [i \in 1..Len(prev) |->
          IF prev[i].id = id
          THEN [prev[i] EXCEPT !.status = status, !.progress = progress]
          ELSE prev[i]]
  ELSE Append(prev, UploadedFile(id, <<>>, status, progress))

\* prev.map(f => f.id === id ? {...f, status, progress} : f)
PatchFile(prev, id, status, progress) ==
  [i \in 1..Len(prev) |->
     IF prev[i].id = id
     THEN [prev[i] EXCEPT !.status = status, !.progress = progress]
     ELSE prev[i]]

\* events that reached a file after its removal
Late(id, kind) == IF id \in removed THEN lateFired \cup {kind} ELSE lateFired

\* ChatInterface's processFiles: the entries on top, one interval each
processFilesSimulated(fileList) ==
  /\ page = "ChatInterface"
  /\ nextId + Len(fileList) <= MaxFiles
  /\ nextId' = nextId + Len(fileList)
  /\ files' = NewFiles(fileList, nextId) \o files
  /\ tickers' = tickers \cup
       {[id |-> RandomId(nextId + i), k |-> nextId + i, count |-> 0] :
          i \in 1..Len(fileList)}
  /\ UNCHANGED <<page, timeouts, fileUploads, removed, lateFired, notFiles>>

\* ChatInterface's interval callback: progress += 20 in the closure
tickSimulated(t) ==
  /\ page = "ChatInterface"
  /\ t \in tickers
  /\ LET progress == 20 * (t.count + 1)
     IN /\ files' = PatchFile(files, t.id,
                              IF progress >= 100 THEN "completed"
                              ELSE "uploading",
                              IF progress > 100 THEN 100 ELSE progress)
        /\ tickers' = IF progress >= 100 THEN tickers \ {t}
                      ELSE (tickers \ {t}) \cup {[t EXCEPT !.count = @ + 1]}
  /\ lateFired' = Late(t.id, "tick")
  /\ UNCHANGED <<page, nextId, timeouts, fileUploads, removed, notFiles>>

\* the simulated KnowledgeBase page's processFiles: the entries on top,
\* one interval and one 1500 ms timeout each
processFilesTimed(fileList) ==
  /\ page = "KnowledgeBaseSimulated"
  /\ nextId + Len(fileList) <= MaxFiles
  /\ nextId' = nextId + Len(fileList)
  /\ files' = NewFiles(fileList, nextId) \o files
  /\ tickers' = tickers \cup
       {[id |-> RandomId(nextId + i), k |-> nextId + i, count |-> 0] :
          i \in 1..Len(fileList)}
  /\ timeouts' = timeouts \cup
       {[id |-> RandomId(nextId + i), k |-> nextId + i] :
          i \in 1..Len(fileList)}
  /\ UNCHANGED <<page, fileUploads, removed, lateFired, notFiles>>

\* file.name.endsWith(suffix)
EndsWith(name, suffix) ==
  /\ Len(name) >= Len(suffix)
  /\ SubSeq(name, Len(name) - Len(suffix) + 1, Len(name)) = suffix

isExcelFile(name) ==
  \/ EndsWith(name, <<".", "x", "l", "s", "x">>)
  \/ EndsWith(name, <<".", "x", "l", "s">>)

\* newFiles.find(f => f.name === file.name)?.id for each file of the batch
BatchQueue(fileList, n) ==
  [i \in 1..Len(fileList) |->
     LET first == CHOOSE j \in 1..Len(fileList) :
                    /\ fileList[j] = fileList[i]
                    /\ \A h \in 1..(j - 1) : fileList[h] # fileList[i]
     IN [id |-> RandomId(n + first), name |-> fileList[i], k |-> n + i]]

\* the KnowledgeBase page's for-loop from one file on, up to its next
\* await: the entries it starts timers for, the upload it issues
RECURSIVE RunLoop(_, _)
RunLoop(fs, queue) ==
  IF queue = <<>> THEN [files |-> fs, started |-> {}, upload |-> {}]
  ELSE LET file == Head(queue)
       IN IF isExcelFile(file.name)
          THEN [files |-> PatchFile(fs, file.id, "processing", 50),
                started |-> {},
                upload |-> {[id |-> file.id, k |-> file.k,
                             rest |-> Tail(queue)]}]
          ELSE LET r == RunLoop(fs, Tail(queue))
               IN [r EXCEPT !.started = @ \cup {[id |-> file.id, k |-> file.k]}]

\* the KnowledgeBase page's processFiles up to its first await
processFiles(fileList) ==
  /\ page = "KnowledgeBase"
  /\ nextId + Len(fileList) <= MaxFiles
  /\ nextId' = nextId + Len(fileList)
  /\ LET r == RunLoop(NewFiles(fileList, nextId) \o files,
                      BatchQueue(fileList, nextId))
     IN /\ files' = r.files
        /\ tickers' = tickers \cup
             {[id |-> s.id, k |-> s.k, count |-> 0] : s \in r.started}
        /\ timeouts' = timeouts \cup r.started
        /\ fileUploads' = fileUploads \cup r.upload
  /\ UNCHANGED <<page, removed, lateFired, notFiles>>

\* the KnowledgeBase pages' interval callback, every 300 ms until the
\* completion timeout clears it
tickKnowledgeBase(t) ==
  /\ page \in TimerPages
  /\ t \in tickers
  /\ t.count < TicksBeforeTimeout
  /\ files' = [i \in 1..Len(files) |->
                 IF files[i].id = t.id /\ files[i].progress < 100
                 THEN [files[i] EXCEPT !.progress = @ + 20]
                 ELSE files[i]]
  /\ tickers' = (tickers \ {t}) \cup {[t EXCEPT !.count = @ + 1]}
  /\ lateFired' = Late(t.id, "tick")
  /\ UNCHANGED <<page, nextId, timeouts, fileUploads, removed, notFiles>>

\* the 1500 ms timeout: clearInterval and mark the file completed
completionTimeout(x) ==
  /\ x \in timeouts
  /\ timeouts' = timeouts \ {x}
  /\ tickers' = {t \in tickers : t.k # x.k}
  /\ files' = PatchFile(files, x.id, "completed", 100)
  /\ lateFired' = Late(x.id, "timeout")
  /\ UNCHANGED <<page, nextId, fileUploads, removed, notFiles>>

\* the upload request of an Excel file settles: result.success, or the
\* catch (success false, a rejected fetch); then the loop goes on
uploadSettled(u, success) ==
  /\ u \in fileUploads
  /\ LET r == RunLoop(IF success
                      THEN PatchFile(files, u.id, "completed", 100)
                      ELSE PatchFile(files, u.id, "error", 0),
                      u.rest)
     IN /\ files' = r.files
        /\ tickers' = tickers \cup
             {[id |-> s.id, k |-> s.k, count |-> 0] : s \in r.started}
        /\ timeouts' = timeouts \cup r.started
        /\ fileUploads' = (fileUploads \ {u}) \cup r.upload
  /\ lateFired' = Late(u.id, "response")
  /\ UNCHANGED <<page, nextId, removed, notFiles>>

\* removeFile: setFiles(prev => prev.filter(f => f.id !== id))
removeFile(id) ==
  /\ \E i \in 1..Len(files) : files[i].id = id
  /\ files' = SelectSeq(files, LAMBDA f : f.id # id)
  /\ removed' = removed \cup {id}
  /\ UNCHANGED <<page, nextId, tickers, timeouts, fileUploads, lateFired,
                 notFiles>>

(***************************************************************************)
(* File intake of the chat interface: the drag-and-drop zone and the       *)
(* paperclip file input both hand files to uploadFile.  A file is its size *)
(* in bytes.                                                               *)
(***************************************************************************)
\* useDropzone options: maxFiles: 10, maxSize: 50 * 1024 * 1024
MaxFilesOption == 10

MaxSizeOption == 50 * 1024 * 1024

FileSizes == {1024, MaxSizeOption, MaxSizeOption + 1}

\* the batches a user drops on the zone: any short batch, and long batches
\* of small files
DroppedBatches ==
  UNION {[1..n -> FileSizes] : n \in 1..2}
    \cup {[i \in 1..n |-> 1024] : n \in 3..MaxDropped}

\* the batches a user picks in the file dialog of the paperclip button
PickedBatches == UNION {[1..n -> FileSizes] : n \in 1..MaxPicked}

\* `file_${Date.now()}_${random}`
UploadId(n) == "file_" \o ToString(n)

UploadItem(fileId, status, progress, error) ==
  [fileId |-> fileId, status |-> status, progress |-> progress,
   error |-> error]

IdleIntake ==
  /\ uploadProgress = <<>>
  /\ intakePosts = {}
  /\ progressTimers = <<>>
  /\ vectorPolling = 0
  /\ intakeLog = {}
  /\ nextUpload = 0
  /\ intakeBatches = 0
  /\ intakeToast = None

\* react-dropzone: a file larger than maxSize is rejected, and when more
\* files than maxFiles pass, all of them are rejected
Dropzone(batch) ==
  LET accepted == SelectSeq(batch, LAMBDA size : size <= MaxSizeOption)
  IN  IF Len(accepted) > MaxFilesOption THEN <<>> ELSE accepted

\* uploadFile up to its fetch: the request of the n-th upload
UploadPost(n, size, auto, rest, batch, entry) ==
  [fileId |-> UploadId(n), size |-> size, phase |-> "upload", auto |-> auto,
   rest |-> rest, batch |-> batch, entry |-> entry]

\* what uploadFile was called with
Uploaded(p) == [size |-> p.size, batch |-> p.batch, entry |-> p.entry]

\* onDrop: for (const file of acceptedFiles) await uploadFile(file), with
\* the uploadFile of the first render (useCallback with no dependencies)
onDrop(batch) ==
  /\ intakeBatches < MaxBatches
  /\ intakeBatches' = intakeBatches + 1
  /\ LET accepted == Dropzone(batch)
         p == UploadPost(nextUpload + 1, Head(accepted),
                         DefaultPreferences.autoProcess, Tail(accepted),
                         Len(accepted), "drop")
     IN  IF accepted = <<>>
         THEN UNCHANGED <<uploadProgress, intakePosts, intakeLog, nextUpload>>
         ELSE /\ nextUpload' = nextUpload + 1
              /\ uploadProgress' =
                   Append(uploadProgress,
                          UploadItem(p.fileId, "uploading", 0, None))
              /\ intakePosts' = intakePosts \cup {p}
              /\ intakeLog' = intakeLog \cup {Uploaded(p)}
  /\ UNCHANGED <<progressTimers, vectorPolling, intakeToast, notIntake>>

\* the file input's onChange: files.forEach(uploadFile)
fileInputChange(batch) ==
  /\ intakeBatches < MaxBatches
  /\ intakeBatches' = intakeBatches + 1
  /\ LET started ==
           [i \in 1..Len(batch) |->
              UploadPost(nextUpload + i, batch[i], autoProcessFiles, <<>>,
                         Len(batch), "input")]
     IN  /\ nextUpload' = nextUpload + Len(batch)
         /\ uploadProgress' =
              uploadProgress \o
                [i \in 1..Len(batch) |->
                   UploadItem(started[i].fileId, "uploading", 0, None)]
         /\ intakePosts' = intakePosts \cup Range(started)
         /\ intakeLog' = intakeLog \cup {Uploaded(started[i]) :
                                          i \in 1..Len(batch)}
  /\ UNCHANGED <<progressTimers, vectorPolling, intakeToast, notIntake>>

\* setUploadProgress(prev => prev.map(item => item.fileId === fileId ? ...))
PatchItem(prev, fileId, status, progress, error) ==
  [i \in 1..Len(prev) |->
     IF prev[i].fileId = fileId
     THEN UploadItem(fileId, status, progress, error)
     ELSE prev[i]]

\* uploadFile has returned: onDrop's loop calls it for the next file
Continue(p, progress) ==
  IF p.rest = <<>>
  THEN [progress |-> progress, posts |-> intakePosts \ {p},
        log |-> intakeLog, next |-> nextUpload]
  ELSE LET q == UploadPost(nextUpload + 1, Head(p.rest), p.auto,
                           Tail(p.rest), p.batch, p.entry)
       IN  [progress |->
              Append(progress, UploadItem(q.fileId, "uploading", 0, None)),
            posts |-> (intakePosts \ {p}) \cup {q},
            log |-> intakeLog \cup {Uploaded(q)},
            next |-> nextUpload + 1]

\* the rest of uploadFile's try block: the success toast, the reload of the
\* available files and the timer that removes the progress item
Finish(p, progress) ==
  LET c == Continue(p, progress)
  IN  /\ uploadProgress' = c.progress
      /\ intakePosts' = c.posts
      /\ intakeLog' = c.log
      /\ nextUpload' = c.next
      /\ progressTimers' = Append(progressTimers, p.fileId)
      /\ intakeToast' = "uploaded successfully"

ErrorItems ==
  {i \in 1..Len(uploadProgress) : uploadProgress[i].status = "error"}

\* the upload request settles: response.ok, or the catch block
uploadResponded(p, ok) ==
  /\ p \in intakePosts
  /\ p.phase = "upload"
  /\ IF ok
     THEN LET progress == PatchItem(uploadProgress, p.fileId, "processing",
                                    100, None)
          IN  IF p.auto
              THEN /\ uploadProgress' = progress
                   /\ intakePosts' =
                        (intakePosts \ {p})
                          \cup {[p EXCEPT !.phase = "process"]}
                   /\ UNCHANGED <<intakeLog, nextUpload, progressTimers,
                                  intakeToast>>
              ELSE Finish(p, progress)
     ELSE /\ Cardinality(ErrorItems) < MaxFailures
          /\ LET c == Continue(p, PatchItem(uploadProgress, p.fileId, "error",
                                            0, "Upload failed"))
             IN  /\ uploadProgress' = c.progress
                 /\ intakePosts' = c.posts
                 /\ intakeLog' = c.log
                 /\ nextUpload' = c.next
          /\ intakeToast' = "Failed to upload"
          /\ UNCHANGED progressTimers
  /\ UNCHANGED <<vectorPolling, intakeBatches, notIntake>>

\* processFileForVectors returns: the process request settled, and with
\* response.ok a status poll is due
processResponded(p, ok) ==
  /\ p \in intakePosts
  /\ p.phase = "process"
  /\ vectorPolling' = IF ok THEN vectorPolling + 1 ELSE vectorPolling
  /\ Finish(p, uploadProgress)
  /\ UNCHANGED <<intakeBatches, notIntake>>

\* a status poll of processFileForVectors ends its chain: 'completed' is
\* announced, any other answer than 'processing' and a throw are dropped
vectorStatusChecked(outcome) ==
  /\ vectorPolling > 0
  /\ vectorPolling' = vectorPolling - 1
  /\ intakeToast' = IF outcome = "completed"
                    THEN "File processed and ready for analysis"
                    ELSE intakeToast
  /\ UNCHANGED <<uploadProgress, intakePosts, progressTimers, intakeLog,
                 nextUpload, intakeBatches, notIntake>>

\* the 3000 ms timers fire in the order they were set
removeProgress ==
  /\ progressTimers # <<>>
  /\ uploadProgress' =
       SelectSeq(uploadProgress,
                 LAMBDA item : item.fileId # Head(progressTimers))
  /\ progressTimers' = Tail(progressTimers)
  /\ UNCHANGED <<intakePosts, vectorPolling, intakeLog, nextUpload,
                 intakeBatches, intakeToast, notIntake>>

(***************************************************************************)
(* The chat box with a file attachment (the ChatInterface component of     *)
(* AdvancedChatInterface.tsx): handleSend uploads the attached file, then  *)
(* posts the text to /api/chat.                                            *)
(***************************************************************************)
\* which chat interface is on screen
ChatKinds == {"advanced", "embedded"}

\* what the user can type into the chat box
BasicInputs == {<<>>, <<"h", "i">>}

\* result.report.summary and chatData.response
ReportSummary == <<"S", "u", "m">>

ChatResponse == <<"o", "k">>

RegardingYourMessage ==
  <<"\n", "\n", "*", "*", "R", "e", "g", "a", "r", "d", "i", "n", "g", " ",
    "y", "o", "u", "r", " ", "m", "e", "s", "s", "a", "g", "e", ":", "*",
    "*", "\n">>

AnErrorOccurred ==
  <<"A", "n", " ", "e", "r", "r", "o", "r", " ", "o", "c", "c", "u", "r",
    "r", "e", "d", ":", " ">>

FileAnalysisFailed ==
  <<"F", "i", "l", "e", " ", "a", "n", "a", "l", "y", "s", "i", "s", " ",
    "f", "a", "i", "l", "e", "d">>

NoReportReturned ==
  <<"A", "n", "a", "l", "y", "s", "i", "s", " ", "d", "i", "d", " ", "n",
    "o", "t", " ", "r", "e", "t", "u", "r", "n", " ", "a", " ", "r", "e",
    "p", "o", "r", "t", ".">>

ChatRequestFailed ==
  <<"C", "h", "a", "t", " ", "A", "P", "I", " ", "r", "e", "q", "u", "e",
    "s", "t", " ", "f", "a", "i", "l", "e", "d", ".">>

BasicMessage(type, text, file) ==
  [type |-> type, content |-> text, file |-> file]

IdleBasic ==
  /\ activeChat = "advanced"
  /\ basicMessage = <<>>
  /\ basicFile = FALSE
  /\ basicMessages = <<>>
  /\ basicIsLoading = FALSE
  /\ basicSends = {}
  /\ basicIssued = 0
  /\ basicToast = None

StartBasic ==
  /\ activeChat \in ChatKinds
  /\ basicMessage = <<>>
  /\ basicFile = FALSE
  /\ basicMessages = <<>>
  /\ basicIsLoading = FALSE
  /\ basicSends = {}
  /\ basicIssued = 0
  /\ basicToast = None

\* onChange of the chat box
basicSetMessage(m) ==
  /\ activeChat = "embedded"
  /\ m # basicMessage
  /\ basicMessage' = m
  /\ UNCHANGED <<activeChat, basicFile, basicMessages, basicIsLoading,
                 basicSends, basicIssued, basicToast, notBasic>>

\* handleFileChange: a file is attached
handleFileChange ==
  /\ activeChat = "embedded"
  /\ ~basicFile
  /\ basicFile' = TRUE
  /\ UNCHANGED <<activeChat, basicMessage, basicMessages, basicIsLoading,
                 basicSends, basicIssued, basicToast, notBasic>>

\* a guard that also refuses while a send is unresolved
BasicSendRefused_WhileLoading(text, file, loading) ==
  (Trim(text) = <<>> /\ ~file) \/ loading

\* if (!userMessageText.trim() && !userFile) return
BasicSendRefused(text, file, loading) == Trim(text) = <<>> /\ ~file

\* handleSend of the chat box up to its first await, by the button or by
\* the Enter key: the upload request when a file is attached, else the chat
\* request
basicHandleSend ==
  /\ activeChat = "embedded"
  /\ ~BasicSendRefused(basicMessage, basicFile, basicIsLoading)
  /\ basicIssued < MaxBasicSends
  /\ basicIssued' = basicIssued + 1
  /\ basicIsLoading' = TRUE
  /\ basicMessages' =
       Append(basicMessages, BasicMessage("user", basicMessage, basicFile))
  /\ basicMessage' = <<>>
  /\ basicFile' = FALSE
  /\ basicSends' = basicSends \cup
       {[id |-> basicIssued + 1, text |-> basicMessage,
         phase |-> IF basicFile THEN "upload" ELSE "chat",
         content |-> <<>>]}
  /\ UNCHANGED <<activeChat, basicToast, notBasic>>

\* the end of handleSend: the bot message, then finally setIsLoading(false)
BasicFinish(send, text) ==
  /\ basicSends' = basicSends \ {send}
  /\ basicMessages' = Append(basicMessages, BasicMessage("bot", text, FALSE))
  /\ basicIsLoading' = FALSE

\* the upload request settles: a report, a body without one, or a non-ok
\* response; with a report and a text the chat request follows
basicUploadSettled(send, outcome) ==
  /\ send \in basicSends
  /\ send.phase = "upload"
  /\ IF outcome = "report"
     THEN /\ basicToast' = "analyzed successfully"
          /\ IF Trim(send.text) # <<>>
             THEN /\ basicSends' =
                       (basicSends \ {send})
                         \cup {[send EXCEPT !.phase = "chat",
                                             !.content = ReportSummary]}
                  /\ UNCHANGED <<basicMessages, basicIsLoading>>
             ELSE BasicFinish(send, ReportSummary)
     ELSE /\ basicToast' = IF outcome = "noreport"
                           THEN "Analysis did not return a report."
                           ELSE "File analysis failed"
          /\ BasicFinish(send,
                         AnErrorOccurred \o
                           (IF outcome = "noreport" THEN NoReportReturned
                            ELSE FileAnalysisFailed))
  /\ UNCHANGED <<activeChat, basicMessage, basicFile, basicIssued, notBasic>>

\* the chat request settles: chatData.response, alone or after the
\* summary, or the catch block
basicChatSettled(send, ok) ==
  /\ send \in basicSends
  /\ send.phase = "chat"
  /\ IF ok
     THEN /\ BasicFinish(send,
                         IF send.content # <<>>
                         THEN send.content \o RegardingYourMessage
                                \o ChatResponse
                         ELSE ChatResponse)
          /\ UNCHANGED basicToast
     ELSE /\ BasicFinish(send, AnErrorOccurred \o ChatRequestFailed)
          /\ basicToast' = "Chat API request failed."
  /\ UNCHANGED <<activeChat, basicMessage, basicFile, basicIssued, notBasic>>

(***************************************************************************)
(* Specifications: one per component, the other components idle.           *)
(***************************************************************************)
NextChat ==
  \/ \E m \in Inputs : SetMessage(m)
  \/ \E f \in FileIds : handleFileSelection(f)
  \/ \E ids \in FileIdLists : autoSelectFiles(ids)
  \/ handleSend
  \/ \E req \in chatReqs, reply \in ChatReplies : handleSendReply(req, reply)
  \/ \E req \in chatReqs : handleSendError(req)
  \/ handleGenerateReport
  \/ \E req \in genReqs, id \in ServerReportIds : generateStarted(req, id)
  \/ \E req \in genReqs, d \in GenerateErrors : generateFailed(req, d)
  \/ \E t \in timers : checkStatus(t)
  \/ \E p \in polls, ok \in BOOLEAN : checkStatusSettled(p, ok)

Init ==
  IdleChat /\ IdleParse /\ IdleUpload /\ IdleExport /\ IdleKb /\ IdleSearch
  /\ IdleFilter /\ IdleTransform /\ IdleRoutes /\ IdleSession /\ IdleFiles
  /\ IdleIntake /\ IdleBasic

Spec == Init /\ [][NextChat]_vars

NextParse == analyzeFinancialData

InitParse ==
  StartParse /\ IdleChat /\ IdleUpload /\ IdleExport /\ IdleKb /\ IdleSearch
  /\ IdleFilter /\ IdleTransform /\ IdleRoutes /\ IdleSession /\ IdleFiles
  /\ IdleIntake /\ IdleBasic

SpecParse == InitParse /\ [][NextParse]_vars

NextUpload ==
  \/ uploadPOST
  \/ \E threw \in BOOLEAN : uploadAnalyzed(threw)

InitUpload ==
  StartUpload /\ IdleChat /\ IdleParse /\ IdleExport /\ IdleKb /\ IdleSearch
  /\ IdleFilter /\ IdleTransform /\ IdleRoutes /\ IdleSession /\ IdleFiles
  /\ IdleIntake /\ IdleBasic

SpecUpload == InitUpload /\ [][NextUpload]_vars

NextExport ==
  \/ \E id \in ReportIds : reportRequested(id)
  \/ \E id \in ReportIds, ok \in BOOLEAN : reportFinished(id, ok)
  \/ \E id \in ReportIds, reachable \in BOOLEAN : exportProxy(id, reachable)
  \/ \E id \in ReportIds : exportLocal(id)

InitExport ==
  IdleExport /\ IdleChat /\ IdleParse /\ IdleUpload /\ IdleKb /\ IdleSearch
  /\ IdleFilter /\ IdleTransform /\ IdleRoutes /\ IdleSession /\ IdleFiles
  /\ IdleIntake /\ IdleBasic

SpecExport == InitExport /\ [][NextExport]_vars

NextKb ==
  \/ kbRefresh
  \/ \E l \in kbLoads : kbListAnswered(l)
  \/ \E l \in kbLoads : kbListLoaded(l)
  \/ \E l \in kbLoads : kbListFailed(l)
  \/ uploadFile
  \/ \E u \in kbUploads : kbUploadOk(u)
  \/ \E u \in kbUploads : kbUploadFailed(u)
  \/ \E f \in kbProcess, o \in {"ok", "notok", "threw"} : kbProcessSettled(f, o)
  \/ \E f \in kbTimers : kbCheckStatus(f)
  \/ \E f \in kbPolls : kbStatusCompleted(f)
  \/ \E f \in kbPolls, o \in {"processing", "pending", "error", "threw"} :
       kbStatusOther(f, o)
  \/ \E f \in KbFileIds : deleteFile(f)
  \/ \E f \in kbDeletes : kbDeleteOk(f)
  \/ \E f \in kbDeletes : kbDeleteFailed(f)

InitKb ==
  StartKb /\ IdleChat /\ IdleParse /\ IdleUpload /\ IdleExport /\ IdleSearch
  /\ IdleFilter /\ IdleTransform /\ IdleRoutes /\ IdleSession /\ IdleFiles
  /\ IdleIntake /\ IdleBasic

SpecKb == InitKb /\ [][NextKb]_vars

NextSearch ==
  \/ \E q \in SearchQueries : searchFiles(q)
  \/ \E q \in SearchQueries : searchKnowledgeBase(q)
  \/ \E q \in SearchQueries : filesTabSearchInput(q)
  \/ \E h \in BOOLEAN, q \in SearchQueries : directSearch(h, q)
  \/ \E req \in searchReqs, b \in BackendSearchOutcomes : searchPOST(req, b)
  \/ \E r \in searchResps : searchSettled(r)
  \/ \E req \in searchReqs : searchRejected(req)

InitSearch ==
  IdleSearch /\ IdleChat /\ IdleParse /\ IdleUpload /\ IdleExport /\ IdleKb
  /\ IdleFilter /\ IdleTransform /\ IdleRoutes /\ IdleSession /\ IdleFiles
  /\ IdleIntake /\ IdleBasic

SpecSearch == InitSearch /\ [][NextSearch]_vars

NextFilter == renderFiltered

InitFilter ==
  StartFilter /\ IdleChat /\ IdleParse /\ IdleUpload /\ IdleExport /\ IdleKb
  /\ IdleSearch /\ IdleTransform /\ IdleRoutes /\ IdleSession /\ IdleFiles
  /\ IdleIntake /\ IdleBasic

SpecFilter == InitFilter /\ [][NextFilter]_vars

NextTransform == transformTableData

InitTransform ==
  StartTransform /\ IdleChat /\ IdleParse /\ IdleUpload /\ IdleExport /\
  IdleKb /\ IdleSearch /\ IdleFilter /\ IdleRoutes /\ IdleSession /\
  IdleFiles /\ IdleIntake /\ IdleBasic

SpecTransform == InitTransform /\ [][NextTransform]_vars

NextRoutes ==
  \/ \E h \in BOOLEAN, o \in BackendOutcomes : chatPOST(h, o)
  \/ \E h \in BOOLEAN, o \in BackendOutcomes : enhancedChatPOST(h, o)
  \/ \E h \in BOOLEAN, o \in BackendOutcomes : autoSelectPOST(h, o)
  \/ \E o \in BackendOutcomes : availableGET(o)
  \/ \E up, an \in BackendOutcomes, t \in AnalysisTables :
       uploadProxyPOST(up, an, t)

InitRoutes ==
  IdleRoutes /\ IdleChat /\ IdleParse /\ IdleUpload /\ IdleExport /\ IdleKb
  /\ IdleSearch /\ IdleFilter /\ IdleTransform /\ IdleSession /\ IdleFiles
  /\ IdleIntake /\ IdleBasic

SpecRoutes == InitRoutes /\ [][NextRoutes]_vars

\* the chat interface across mounts: typing, selecting, sending
NextSession ==
  \/ unmount
  \/ clearSiteData
  \/ mount
  \/ mounted /\ \E m \in Inputs : SetMessage(m)
  \/ mounted /\ \E f \in FileIds : handleFileSelection(f)
  \/ mounted /\ handleSend
  \/ mounted /\ \E req \in chatReqs : handleSendReply(req, PlainReply)

InitSession ==
  IdleSession /\ IdleChat /\ IdleParse /\ IdleUpload /\ IdleExport /\ IdleKb
  /\ IdleSearch /\ IdleFilter /\ IdleTransform /\ IdleRoutes /\ IdleFiles /\
  IdleIntake /\ IdleBasic

SpecSession == InitSession /\ [][NextSession]_vars

\* the chat interface while the list of available files is reloaded
NextSelection ==
  \/ \E ids \in FileIdLists : availableFilesLoaded(ids)
  \/ \E f \in Range(availableFiles) : handleFileSelection(f)
  \/ \E m \in Inputs : SetMessage(m)
  \/ handleSend
  \/ \E req \in chatReqs : handleSendReply(req, PlainReply)
  \/ handleGenerateReport
  \/ \E req \in genReqs, d \in GenerateErrors : generateFailed(req, d)

InitSelection ==
  IdleChat /\ IdleParse /\ IdleUpload /\ IdleExport /\ IdleKb /\ IdleSearch
  /\ IdleFilter /\ IdleTransform /\ IdleRoutes /\ IdleSession /\ IdleFiles
  /\ IdleIntake /\ IdleBasic

SpecSelection == InitSelection /\ [][NextSelection]_vars

NextFiles ==
  \/ \E b \in FileBatches : processFilesSimulated(b)
  \/ \E t \in tickers : tickSimulated(t)
  \/ \E b \in FileBatches : processFilesTimed(b)
  \/ \E b \in FileBatches : processFiles(b)
  \/ \E t \in tickers : tickKnowledgeBase(t)
  \/ \E x \in timeouts : completionTimeout(x)
  \/ \E u \in fileUploads, ok \in BOOLEAN : uploadSettled(u, ok)
  \/ \E i \in 1..Len(files) : removeFile(files[i].id)

InitFiles ==
  StartFiles /\ IdleChat /\ IdleParse /\ IdleUpload /\ IdleExport /\ IdleKb
  /\ IdleSearch /\ IdleFilter /\ IdleTransform /\ IdleRoutes /\ IdleSession
  /\ IdleIntake /\ IdleBasic

SpecFiles == InitFiles /\ [][NextFiles]_vars

\* the settings dialog across mounts
NextPreferences ==
  \/ unmount
  \/ clearSiteData
  \/ mount
  \/ \E v \in BOOLEAN : setAutoProcessFiles(v)
  \/ \E v \in ContextSizes : setMaxContextFiles(v)
  \/ \E v \in BOOLEAN : setShowSourceExcerpts(v)

InitPreferences ==
  IdleSession /\ IdleChat /\ IdleParse /\ IdleUpload /\ IdleExport /\ IdleKb
  /\ IdleSearch /\ IdleFilter /\ IdleTransform /\ IdleRoutes /\ IdleFiles /\
  IdleIntake /\ IdleBasic

SpecPreferences == InitPreferences /\ [][NextPreferences]_vars

NextIntake ==
  \/ \E b \in DroppedBatches : onDrop(b)
  \/ \E b \in PickedBatches : fileInputChange(b)
  \/ \E p \in intakePosts, ok \in BOOLEAN : uploadResponded(p, ok)
  \/ \E p \in intakePosts, ok \in BOOLEAN : processResponded(p, ok)
  \/ \E o \in {"completed", "error", "threw"} : vectorStatusChecked(o)
  \/ removeProgress
  \/ \E v \in BOOLEAN : setAutoProcessFiles(v)

InitIntake ==
  IdleIntake /\ IdleChat /\ IdleParse /\ IdleUpload /\ IdleExport /\ IdleKb
  /\ IdleSearch /\ IdleFilter /\ IdleTransform /\ IdleRoutes /\ IdleSession
  /\ IdleFiles /\ IdleBasic

SpecIntake == InitIntake /\ [][NextIntake]_vars

\* the steps of the Knowledge Base manager that need no user: responses
\* arriving, timers firing
KbSettles ==
  \/ \E l \in kbLoads : kbListAnswered(l)
  \/ \E l \in kbLoads : kbListLoaded(l)
  \/ \E u \in kbUploads : kbUploadOk(u)
  \/ \E f \in kbProcess, o \in {"ok", "notok", "threw"} : kbProcessSettled(f, o)
  \/ \E f \in kbTimers : kbCheckStatus(f)
  \/ \E f \in kbPolls : kbStatusCompleted(f)
  \/ \E f \in kbDeletes : kbDeleteOk(f)

\* every request is eventually answered and every timer eventually fires
SpecKbLive == InitKb /\ [][NextKb]_vars /\ WF_vars(KbSettles)

\* sending in the chat interfaces: the advanced interface or the chat box
\* with a file attachment
NextSends ==
  \/ activeChat = "advanced" /\ \E m \in Inputs : SetMessage(m)
  \/ activeChat = "advanced" /\ handleSend
  \/ activeChat = "advanced"
       /\ \E req \in chatReqs : handleSendReply(req, PlainReply)
  \/ activeChat = "advanced" /\ \E req \in chatReqs : handleSendError(req)
  \/ \E m \in BasicInputs : basicSetMessage(m)
  \/ handleFileChange
  \/ basicHandleSend
  \/ \E send \in basicSends, o \in {"report", "noreport", "failed"} :
       basicUploadSettled(send, o)
  \/ \E send \in basicSends, ok \in BOOLEAN : basicChatSettled(send, ok)

InitSends ==
  StartBasic /\ IdleChat /\ IdleParse /\ IdleUpload /\ IdleExport /\ IdleKb
  /\ IdleSearch /\ IdleFilter /\ IdleTransform /\ IdleRoutes /\ IdleSession
  /\ IdleFiles /\ IdleIntake

SpecSends == InitSends /\ [][NextSends]_vars

\* the empty chat screen with its quick-action cards
NextQuick ==
  \/ \E m \in Inputs : SetMessage(m)
  \/ \E f \in FileIds : handleFileSelection(f)
  \/ \E p \in QuickPrompts : quickAction(p)
  \/ handleSend
  \/ \E req \in chatReqs : handleSendReply(req, PlainReply)
  \/ \E req \in chatReqs : handleSendError(req)

SpecQuick == Init /\ [][NextQuick]_vars

\* every timer of the file list eventually fires and every upload request
\* eventually resolves or rejects
SpecFilesLive ==
  /\ InitFiles
  /\ [][NextFiles]_vars
  /\ WF_vars(\E t \in tickers : tickSimulated(t))
  /\ WF_vars(\E x \in timeouts : completionTimeout(x))
  /\ WF_vars(\E u \in fileUploads, ok \in BOOLEAN : uploadSettled(u, ok))

(***************************************************************************)
(* Properties of the response parser.                                      *)
(***************************************************************************)
ContentLines == Split(content, "\n")

NoHeadingLine ==
  \A i \in 1..Len(ContentLines) : HeadingOf(ContentLines[i]) = None

WithoutHashLines ==
  SelectSeq(ContentLines, LAMBDA l : ~Includes(l, HashMarker))

SectionAt(i) ==
  LET hs == {j \in 1..(i - 1) : HeadingOf(ContentLines[j]) # None}
  IN  IF hs = {} THEN "summary"
      ELSE HeadingOf(ContentLines[CHOOSE j \in hs : \A k \in hs : k <= j])

\* the lines of a section that carry a row: not a heading, containing '|',
\* not skipped as a separator (no '---'), at least three non-empty cells
RowLinesOf(section) ==
  {i \in 1..Len(ContentLines) :
     /\ HeadingOf(ContentLines[i]) = None
     /\ SectionAt(i) = section
     /\ Includes(ContentLines[i], <<"|">>)
     /\ ~Includes(ContentLines[i], DashMarker)
     /\ Len(Cells(ContentLines[i])) >= 3}

\* the k-th smallest element of a set of line numbers
Nth(S, k) == CHOOSE i \in S : Cardinality({j \in S : j < i}) = k - 1

TotalAssetsRow ==
  [indicator |-> <<"T", "o", "t", "a", "l", " ", "A", "s", "s", "e", "t", "s">>,
   currentYear |-> <<"1", ",", "0", "0", "0", ",", "0", "0", "0">>,
   previousYear |-> <<"9", "0", "0", ",", "0", "0", "0">>]

ContainsCode(cell) ==
  \E i \in 1..(Len(cell) - 3) :
    /\ cell[i] \in {"c", "C"}
    /\ cell[i + 1] \in {"o", "O"}
    /\ cell[i + 2] \in {"d", "D"}
    /\ cell[i + 3] \in {"e", "E"}

\* JavaScript indices of the rows of data that have such a cell
QualifyingRows ==
  {i \in 0..(Len(data) - 1) :
     \E c \in 1..Len(data[i + 1]) : ContainsCode(data[i + 1][c])}

\* C8: the table starts at the lowest-index row with a cell containing
\* 'code' (index 5 when that row is the 'Code' header at index 5); that row
\* is the headers and all later rows, in order, are the data sent to the
\* model; when no row qualifies the response is 400 and the model is never
\* called.
C8_TableStart ==
  upload.phase # "idle" =>
    IF QualifyingRows = {}
    THEN /\ upload.phase = "responded"
         /\ upload.status = 400
         /\ upload.modelCalls = 0
    ELSE LET first == CHOOSE i \in QualifyingRows :
                        \A j \in QualifyingRows : i <= j
             sent == Split(upload.tableStr, "\n")
         IN  /\ upload.startIndex = first
             /\ upload.headers = data[first + 1]
             /\ upload.rows = [k \in 1..(Len(data) - first - 1) |->
                                 data[first + 1 + k]]
             /\ upload.modelCalls = 1
             /\ Len(sent) = Len(data) - first + 1
             /\ sent[Len(sent)] = <<>>
             /\ \A k \in 1..(Len(data) - first) :
                  sent[k] = Join(data[first + k], <<"\t">>)
             /\ (Len(data) >= 6 /\ data[6] = CodeRow
                 /\ \A i \in QualifyingRows : i >= 5) => upload.startIndex = 5

\* the 'Code' header row found at index 5 with a data row after it
C8_Witness ==
  /\ upload.phase = "responded"
  /\ upload.status = 200
  /\ upload.startIndex = 5
  /\ upload.headers = CodeRow
  /\ upload.rows = <<FigureRow>>

(***************************************************************************)
(* Properties of the export routes.                                        *)
(***************************************************************************)
\* C5: an export returns a file only for a report whose status is
\* completed, and the response for a report that is still generating is
\* not a file and differs from the same route's response for a report that
\* does not exist.
C5_ExportOnlyWhenCompleted ==
  \A i \in 1..Len(exportLog) :
    LET e == exportLog[i]
    IN  /\ e.response.kind = "xlsx" => e.job = "completed"
        /\ e.job = "generating" =>
             \A j \in 1..Len(exportLog) :
               (exportLog[j].job = "absent" /\ exportLog[j].route = e.route)
                 => exportLog[j].response.body # e.response.body

(***************************************************************************)
(* Properties of the Knowledge Base manager.                               *)
(***************************************************************************)
\* C10: once deleteFile has succeeded for an id and no list load is in
\* flight (none of them having failed), the list on display holds no entry
\* with that id and no id twice.
C10_NoResidue ==
  (kbLoads = {} /\ ~loadFailed) =>
    /\ \A f \in deleted : f \notin Range(kbFiles)
    /\ \A i, j \in 1..Len(kbFiles) : kbFiles[i] = kbFiles[j] => i = j

(***************************************************************************)
(* Properties of the chat interface's report job handling.                 *)
(***************************************************************************)
Terminal == {"completed", "error"}

ReportWorkPending == genReqs # {} \/ timers # {} \/ polls # {}

\* C1: once reportStatus is 'generating' it eventually becomes 'completed'
\* or 'error' when every request resolves or rejects.  Finite form: when no
\* generate request, checkStatus timer or status fetch is left outstanding,
\* reportStatus is not 'generating'.
C1_GeneratingSettles ==
  reportStatus.status = "generating" => ReportWorkPending

\* C2: terminal states are final: a step that changes a reportStatus whose
\* status is 'completed' or 'error' is a new handleGenerateReport call.
C2_TerminalFinal ==
  [][(reportStatus.status \in Terminal /\ reportStatus' # reportStatus)
       => genIssued' = genIssued + 1]_vars

\* C3: download_url is set iff status is 'completed', and error is set iff
\* status is 'error'.
C3_UrlIffCompleted ==
  /\ (reportStatus.download_url # None) <=> (reportStatus.status = "completed")
  /\ (reportStatus.error # None) <=> (reportStatus.status = "error")

\* C4: handleGenerateReport called while selectedFiles is empty issues no
\* generate request and leaves reportStatus unchanged.
C4_EmptySelectionRejected ==
  [][(handleGenerateReport /\ Len(selectedFiles) = 0)
       => /\ reportStatus' = reportStatus
          /\ genReqs' = genReqs
          /\ genIssued' = genIssued]_vars

\* an empty-selection generate call was rejected while an earlier report
\* was on display
C4_Witness ==
  /\ toast = "Please select files to generate a report"
  /\ selectedFiles = <<>>
  /\ reportStatus.status = "completed"
  /\ genReqs = {}

\* C9: selectedFiles is modified only by handleFileSelection and
\* autoSelectFiles; handleSend, its reply, handleGenerateReport and its
\* status poll leave it unchanged.
C9_SelectionFrame ==
  [][selectedFiles' # selectedFiles
       => \/ \E f \in FileIds : handleFileSelection(f)
          \/ \E ids \in FileIdLists : autoSelectFiles(ids)]_vars

\* a reply was received and a report was generated, and the selection is
\* still there
C9_Witness ==
  /\ reportStatus.status = "completed"
  /\ reportStatus.download_url = ExportUrl(reportStatus.report_id)
  /\ Len(messages) = 2
  /\ selectedFiles # <<>>

(***************************************************************************)
(* Properties of the file search.                                          *)
(***************************************************************************)
\* C11: a search with an empty query gives an empty result set and no error:
\* searchFiles and searchKnowledgeBase set their results to [] without a
\* request or a toast, and the route answers an empty query with status 200
\* and an empty result list.
C11_EmptyQueryEmptyResult ==
  [][/\ \A q \in SearchQueries :
          (Trim(q) = <<>> /\ searchFiles(q)) =>
            /\ searchResults' = <<>>
            /\ searchToast' = searchToast
     /\ \A q \in SearchQueries :
          (Trim(q) = <<>> /\ searchKnowledgeBase(q)) =>
            /\ kbSearchResults' = <<>>
            /\ searchToast' = searchToast
     /\ \A r \in searchLog' :
          (r.hasQuery /\ r.query = <<>>) =>
            /\ r.resp.status = 200
            /\ r.resp.error = None
            /\ r.resp.hasResults
            /\ r.resp.results = <<>>]_vars

(***************************************************************************)
(* Properties of the keyword file filter.                                  *)
(***************************************************************************)
\* two characters are the same letter up to case
SameLetter(a, b) ==
  \/ a = b
  \/ \E p \in {<<"A", "a">>, <<"B", "b">>, <<"C", "c">>, <<"D", "d">>,
               <<"E", "e">>, <<"F", "f">>, <<"G", "g">>, <<"H", "h">>,
               <<"I", "i">>, <<"J", "j">>, <<"K", "k">>, <<"L", "l">>,
               <<"M", "m">>, <<"N", "n">>, <<"O", "o">>, <<"P", "p">>,
               <<"Q", "q">>, <<"R", "r">>, <<"S", "s">>, <<"T", "t">>,
               <<"U", "u">>, <<"V", "v">>, <<"W", "w">>, <<"X", "x">>,
               <<"Y", "y">>, <<"Z", "z">>} :
       {a, b} = {p[1], p[2]}

\* term occurs in name as a case-insensitive substring
ContainsIgnoringCase(name, term) ==
  \E i \in 1..(Len(name) - Len(term) + 1) :
    \A k \in 1..Len(term) : SameLetter(name[i + k - 1], term[k])

MatchingIndexes ==
  {i \in 1..Len(listed) : ContainsIgnoringCase(listed[i].name, searchTerm)}

\* C12: filteredFiles is exactly the files whose name contains the search
\* term as a case-insensitive substring, in their original list order; an
\* empty term returns all files.
C12_FilterExact ==
  filtered # NoFilter =>
    /\ Len(filtered) = Cardinality(MatchingIndexes)
    /\ \A j \in 1..Len(filtered) :
         filtered[j] = listed[Nth(MatchingIndexes, j)]
    /\ searchTerm = <<>> => filtered = listed

\* a term in another case than the name selects one of two listed files
C12_Witness ==
  /\ filtered # NoFilter
  /\ Len(listed) = 2
  /\ Len(filtered) = 1
  /\ searchTerm # <<>>
  /\ ~Includes(filtered[1].name, searchTerm)

(***************************************************************************)
(* Properties of transformTableData.                                       *)
(***************************************************************************)
\* the values the backend row holds
ValuesOf(item) == {item.values[k] : k \in 1..Len(item.values)}

\* C17: every indicator, currentYear and previousYear value returned for a
\* row is a value of the backend's row: nothing is fabricated or
\* substituted.
C17_ValuesFromBackend ==
  transformed # NoTransform =>
    \A i \in 1..Len(transformed) :
      {transformed[i].indicator, transformed[i].currentYear,
       transformed[i].previousYear} \subseteq ValuesOf(backendData.items[i])

\* the keys labelled as the current-year column
CurrentLabelled(keys) ==
  {i \in 1..Len(keys) :
     \/ Includes(keys[i], <<"2", "0", "2", "4">>)
     \/ Includes(ToLowerCase(keys[i]), <<"c", "u", "r", "r", "e", "n", "t">>)
     \/ Includes(ToLowerCase(keys[i]), <<"t", "h", "i", "s">>)}

\* the keys labelled as the previous-year column
PreviousLabelled(keys) ==
  {i \in 1..Len(keys) :
     \/ Includes(keys[i], <<"2", "0", "2", "3">>)
     \/ Includes(ToLowerCase(keys[i]),
                 <<"p", "r", "e", "v", "i", "o", "u", "s">>)
     \/ Includes(ToLowerCase(keys[i]), <<"l", "a", "s", "t">>)}

\* C18: the current-year and previous-year columns are chosen by label
\* wherever the labelled key occurs, by position (second and third key)
\* only when no key carries the label, and for a row of three or more keys
\* the two chosen columns differ.
C18_LabelFirst ==
  transformed # NoTransform =>
    \A i \in 1..Len(chosenKeys) :
      LET item == backendData.items[i]
          keys == item.keys
          ck == chosenKeys[i]
      IN item.object =>
           /\ CurrentLabelled(keys) # {} =>
                ck.currentYearKey \in CurrentLabelled(keys)
           /\ (CurrentLabelled(keys) = {} /\ Len(keys) >= 2) =>
                ck.currentYearKey = 2
           /\ PreviousLabelled(keys) # {} =>
                ck.previousYearKey \in PreviousLabelled(keys)
           /\ (PreviousLabelled(keys) = {} /\ Len(keys) >= 3) =>
                ck.previousYearKey = 3
           /\ Len(keys) >= 3 => ck.currentYearKey # ck.previousYearKey

(***************************************************************************)
(* Properties of the API routes.                                           *)
(***************************************************************************)
\* C13: no error response of a route carries backend- or adapter-supplied
\* text: two failures of the same route, for the same request and of the
\* same kind, that differ only in their error detail get the same body.
C13_NoDetailInErrorBody ==
  \A a, b \in routeLog :
    (/\ a.route = b.route
     /\ a.request = b.request
     /\ a.kind = b.kind
     /\ a.status >= 400
     /\ b.status >= 400) => a.body = b.body

(***************************************************************************)
(* Properties of the chat interface across mounts.                         *)
(***************************************************************************)
\* C14: after an unmount and a new mount with the same stored
\* chat_session_id, the messages list and the selected files are those the
\* interface had before unmounting, and the session id is the stored one.
C14_RestoredOnMount ==
  [][(mount /\ atUnmount.taken) =>
       /\ sessionId' = storedSessionId
       /\ sessionId' = atUnmount.sessionId
       /\ messages' = atUnmount.messages
       /\ selectedFiles' = atUnmount.selectedFiles]_vars

(***************************************************************************)
(* Properties of the vector-status polling.                                *)
(***************************************************************************)
\* C15: once /api/vector/process has accepted a file, checkStatus polls on
\* through the non-terminal statuses 'pending' and 'processing' without
\* announcing anything, and stops only on 'completed', announcing success,
\* or on 'error', announcing failure.
C15_PollsUntilTerminal ==
  [][\A f \in kbPolls :
       /\ \A o \in {"pending", "processing"} :
            kbStatusOther(f, o) =>
              /\ f \in kbTimers'
              /\ kbToast' = kbToast
       /\ kbStatusOther(f, "error") =>
            /\ f \notin kbTimers'
            /\ kbToast' = "Vector processing failed"
       /\ kbStatusCompleted(f) =>
            /\ f \notin kbTimers'
            /\ kbToast' = "File processed and ready for search"]_vars

(***************************************************************************)
(* Properties of the parser's separator test.                              *)
(***************************************************************************)
\* a table separator: a row composed solely of dashes between its pipes
DashOnlyRow(line) ==
  /\ \E i \in 1..Len(line) : line[i] = "-"
  /\ \A i \in 1..Len(line) : line[i] \in {"-", "|", " ", ":"}

\* the lines of a section that are data rows: not a heading, containing
\* '|', not a dash-only separator, at least three non-empty cells
DataRowLinesOf(section) ==
  {i \in 1..Len(ContentLines) :
     /\ HeadingOf(ContentLines[i]) = None
     /\ SectionAt(i) = section
     /\ Includes(ContentLines[i], <<"|">>)
     /\ ~DashOnlyRow(ContentLines[i])
     /\ Len(Cells(ContentLines[i])) >= 3}

\* C16: inside a section only dash-only rows are skipped as separators:
\* every other line with '|' and at least three non-empty cells becomes a
\* row, also when one of its cells contains '---'.
C16_OnlyDashRowsSkipped ==
  analysis.done =>
    \A section \in {"balanceSheet", "incomeStatement", "cashFlowStatement"} :
      LET rows == analysis.tables[section]
          from == DataRowLinesOf(section)
      IN  /\ Len(rows) = Cardinality(from)
          /\ \A k \in 1..Len(rows) :
               rows[k].indicator = Cells(ContentLines[Nth(from, k)])[1]

(***************************************************************************)
(* Properties of the selected files against the available files.           *)
(***************************************************************************)
\* the number the Selected Files Bar works with: selectedFiles.length
DisplayedSelectedCount == Len(selectedFiles)

\* C19: selected ids that are no longer in availableFiles are pruned on
\* every read: the file_ids sent by handleSend and by handleGenerateReport,
\* the attachments of a user message and the displayed selected-file count
\* only refer to ids present in availableFiles at that moment.
C19_StaleIdsPruned ==
  [][/\ handleSend =>
          /\ \A r \in chatReqs' \ chatReqs :
               Range(r.file_ids) \subseteq Range(availableFiles)
          /\ Range(messages'[Len(messages')].attachments)
               \subseteq Range(availableFiles)
     /\ handleGenerateReport =>
          \A r \in genReqs' \ genReqs :
            Range(r.file_ids) \subseteq Range(availableFiles)
     /\ DisplayedSelectedCount' =
          Cardinality(Range(selectedFiles') \cap Range(availableFiles'))
    ]_vars

(***************************************************************************)
(* Properties of the knowledge-base file list.                             *)
(***************************************************************************)
\* C20: delete wins over in-flight upload processing: after removeFile(id)
\* no progress tick, completion timeout or upload response puts an entry
\* with that id back into the files list.
C20_DeleteWins ==
  \A id \in removed : \A i \in 1..Len(files) : files[i].id # id

\* a tick, a completion timeout and an upload response have all fired for
\* files that had been removed before
C20_Witness ==
  /\ lateFired = {"tick", "timeout", "response"}
  /\ removed # {}

\* the pages whose processFiles simulates every upload
SimulatedPages == {"ChatInterface", "KnowledgeBaseSimulated"}

\* the entries processFiles added: their ids come from Math.random()
AddedFiles(fs) ==
  {i \in 1..Len(fs) : \E n \in 1..nextId : fs[i].id = RandomId(n)}

\* every added entry is well formed after the step and has not lost
\* progress in it
ProgressStep ==
  /\ \A i \in AddedFiles(files') :
       /\ files'[i].progress \in 0..100
       /\ (files'[i].status = "completed") <=> (files'[i].progress = 100)
       /\ files'[i].status = "completed" =>
            \A t \in tickers' : t.id # files'[i].id
  /\ \A i \in AddedFiles(files) : \A j \in AddedFiles(files') :
       files[i].id = files'[j].id =>
         files[i].progress <= files'[j].progress

\* C21: for every file added by a simulated processFiles the progress stays
\* within 0..100 and never decreases, the status is 'completed' exactly
\* when the progress is 100, and no progress timer is left for a completed
\* file.
C21_ProgressWellFormed ==
  [][(page \in SimulatedPages) => ProgressStep]_vars

(***************************************************************************)
(* Properties of the user preferences.                                     *)
(***************************************************************************)
\* C23: the preferences in effect at an unmount are the ones in effect
\* after the next mount's effects, and 'chat_preferences' then holds them
\* (never the defaults in place of saved non-default values).
C23_PreferencesRoundTrip ==
  [][(mount /\ atUnmount.taken) =>
       /\ Preferences(autoProcessFiles', maxContextFiles',
                      showSourceExcerpts') = atUnmount.preferences
       /\ storedPreferences' = saveUserPreferences(atUnmount.preferences)
       /\ storedPreferences' = storedPreferences]_vars

\* a second mount has restored non-default values of all three preferences
C23_Witness ==
  /\ mounted
  /\ mounts = 2
  /\ atUnmount.taken
  /\ CurrentPreferences = Preferences(FALSE, 10, FALSE)
  /\ storedPreferences.maxFiles = "10"

(***************************************************************************)
(* Properties of the file intake.                                          *)
(***************************************************************************)
\* C22: every file uploadFile is called with is at most 50MB and belongs
\* to a batch of at most 10 files, whether it came through the dropzone or
\* through the file input.
C22_UploadLimits ==
  \A u \in intakeLog : u.size <= MaxSizeOption /\ u.batch <= MaxFilesOption

(***************************************************************************)
(* Properties of the report status polling.                                *)
(***************************************************************************)
\* the states a report job can be read in
JobStatuses == {"generating", "completed", "error"}

\* the answers of GET /api/financial/report/{id}: the job with status 200,
\* or a failure without a job
StatusResponses ==
  {[ok |-> TRUE, status |-> j] : j \in JobStatuses}
    \cup {[ok |-> FALSE, status |-> None]}

\* checkStatus with the response it received: only statusResponse.ok is
\* read, the body is never parsed
checkStatusResponse(p, response) == checkStatusSettled(p, response.ok)

\* C24: reportStatus becomes 'completed' for a report id only by a status
\* poll for that id whose response reports the job as completed; a poll
\* answered with a generating or failed job does not.
C24_CompletedOnlyWhenReported ==
  [][\A p \in polls : \A response \in StatusResponses :
       (checkStatusResponse(p, response) /\ response.status # "completed")
         => ~(/\ reportStatus'.status = "completed"
              /\ reportStatus'.report_id = p.report_id)]_vars

(***************************************************************************)
(* Properties of overlapping searches.                                     *)
(***************************************************************************)
SearchClients == {"chat", "kb"}

\* no search request of the client is in flight
SearchesSettled(c) ==
  /\ \A req \in searchReqs : req.from # c
  /\ \A r \in searchResps : r.req.from # c

ShownResults(c) == IF c = "chat" THEN searchResults ELSE kbSearchResults

\* C25: once all search requests of a client have settled, its results are
\* those of the most recently entered query (the response to the request
\* issued for it, when that response was read), and are empty when that
\* query is empty.
C25_LatestQueryWins ==
  \A c \in SearchClients :
    SearchesSettled(c) =>
      IF Trim(searchTrack[c].query) = <<>>
      THEN ShownResults(c) = <<>>
      ELSE searchTrack[c].latest \in searchTrack[c].delivered =>
             searchTrack[c].shown = searchTrack[c].latest

(***************************************************************************)
(* Progress of the vector processing indicator.                            *)
(***************************************************************************)
\* the process request, a checkStatus timer or a status request of the
\* file is outstanding
VectorWorkPending(f) == f \in kbProcess \cup kbTimers \cup kbPolls

\* C26: every file id that processFileForVectors added to processingFiles
\* is eventually removed from it once its requests have settled, also when
\* the process request was answered with a non-2xx status or a status poll
\* threw.
C26_ProcessingEventuallyCleared ==
  \A f \in KbFileIds :
    (f \in processingFiles /\ ~VectorWorkPending(f))
      ~> (f \notin processingFiles)

(***************************************************************************)
(* Properties of sending in the chat interfaces.                           *)
(***************************************************************************)
\* the sends of the chat box whose chat request is in flight
ChatPhase == {send \in basicSends : send.phase = "chat"}

\* C27: in each chat interface at most one chat request is in flight: a
\* send attempted while a previous send is unresolved issues no request and
\* appends no message.
C27_OneRequestInFlight ==
  /\ Cardinality(chatReqs) <= 1
  /\ Cardinality(basicSends) <= 1
  /\ Cardinality(ChatPhase) <= 1

\* one message of the given type was appended
Appended(before, after, type) ==
  /\ Len(after) = Len(before) + 1
  /\ SubSeq(after, 1, Len(before)) = before
  /\ after[Len(after)].type = type

\* user, bot, user, bot, ...
Alternates(ms) ==
  \A i \in 1..Len(ms) : ms[i].type = IF i % 2 = 1 THEN "user" ELSE "bot"

OfType(ms, type) == {i \in 1..Len(ms) : ms[i].type = type}

\* what a step of the advanced interface does to the messages
AdvancedSendStep ==
  /\ handleSend =>
       /\ Appended(messages, messages', "user")
       /\ Cardinality(chatReqs') = Cardinality(chatReqs) + 1
  /\ \A req \in chatReqs :
       (handleSendReply(req, PlainReply) \/ handleSendError(req)) =>
         /\ Appended(messages, messages', "bot")
         /\ chatReqs' = chatReqs \ {req}
         /\ ~isLoading'
  /\ Alternates(messages')

\* what a step of the chat box does to its messages
EmbeddedSendStep ==
  /\ basicHandleSend =>
       /\ Appended(basicMessages, basicMessages', "user")
       /\ Cardinality(basicSends') = Cardinality(basicSends) + 1
       /\ (basicSends = {} /\ Alternates(basicMessages))
            => Alternates(basicMessages')
  /\ \A send \in basicSends :
       (\/ \E o \in {"report", "noreport", "failed"} :
             basicUploadSettled(send, o)
        \/ \E ok \in BOOLEAN : basicChatSettled(send, ok)) =>
         \/ /\ \E next \in basicSends' :
                 next.id = send.id /\ next.phase = "chat"
            /\ basicMessages' = basicMessages
         \/ /\ \A next \in basicSends' : next.id # send.id
            /\ Appended(basicMessages, basicMessages', "bot")
            /\ ~basicIsLoading'
            /\ (basicSends = {send} /\ Alternates(basicMessages))
                 => Alternates(basicMessages')
  /\ Cardinality(OfType(basicMessages', "user")) = basicIssued'
  /\ Cardinality(OfType(basicMessages', "bot"))
       = basicIssued' - Cardinality(basicSends')

\* C28: every handleSend call that passes its guard appends exactly one
\* user message and, once its requests have settled, exactly one bot
\* message (the reply or an error message) and then resets isLoading;
\* when sends do not overlap, the messages alternate user, bot.
C28_OneUserOneBot ==
  [][AdvancedSendStep /\ EmbeddedSendStep]_vars

\* two overlapping sends of the chat box have both settled, one of them
\* with the error message
C28_Witness ==
  /\ basicIssued = 2
  /\ basicSends = {}
  /\ ~basicIsLoading
  /\ Len(basicMessages) = 4
  /\ basicMessages[2].type = "user"
  /\ basicMessages[4].content = AnErrorOccurred \o ChatRequestFailed

(***************************************************************************)
(* Properties of the quick-action cards.                                   *)
(***************************************************************************)
CardSendsPrompt(p) ==
  /\ Appended(messages, messages', "user")
  /\ messages'[Len(messages')].content = p
  /\ [message |-> p, file_ids |-> selectedFiles] \in chatReqs'

\* C29: clicking a quick-action card while no send is in progress appends a
\* user message with the card's prompt and issues a chat request carrying
\* that text, whatever the input box held before the click.
C29_CardSendsItsPrompt ==
  [][\A p \in QuickPrompts :
       (quickAction(p) /\ ~isLoading) => CardSendsPrompt(p)]_vars

(***************************************************************************)
(* Progress of the knowledge-base page's uploads.                          *)
(***************************************************************************)
\* the entry with this id is listed and neither completed nor failed
Unsettled(id) ==
  \E i \in 1..Len(files) :
    files[i].id = id /\ files[i].status \notin {"completed", "error"}

\* C30: every file of a batch passed to the knowledge-base page's
\* processFiles eventually reaches status 'completed' or 'error', also when
\* two files of the batch have the same name: no entry stays 'uploading'.
C30_BatchEventuallySettles ==
  \A k \in 1..MaxFiles :
    (page = "KnowledgeBase" /\ Unsettled(RandomId(k)))
      ~> ~Unsettled(RandomId(k))

====
